---- MODULE Spec2Model ----
(***************************************************************************)
(* Review Consensus Engine: the round-based review session and its         *)
(* orchestrator (src/src/consensus_code_review/mcp/review_orchestrator.py),*)
(* with the artifact writer it calls when a lead submission ends a        *)
(* session.                                                                *)
(*                                                                         *)
(* Strings that the code inspects (agent names, review texts) are modelled *)
(* as sequences of one-character strings, so that upper(), lower() and the *)
(* substring test `keyword in text` are computed and not assumed.          *)
(* An Optional value is a sequence of length 0 (None) or 1 (the value).    *)
(***************************************************************************)
EXTENDS Integers, Sequences, FiniteSets, TLC

-----------------------------------------------------------------------------
(* Bounds of the model *)

\* number of state-changing orchestrator calls explored in one behaviour
MaxCalls == 4
\* last clock second reached by the wall clock (time.time())
MaxTime == 1
\* largest max_rounds argument passed to create_review_session
MaxRoundsArg == 3
\* longest progress log kept per agent
MaxProgress == 1

-----------------------------------------------------------------------------
(* Strings *)

None == <<>>
Some(v) == <<v>>

UpperCase == <<"A","B","C","D","E","F","G","H","I","J","K","L","M","N","O","P","Q","R","S","T","U","V","W","X","Y","Z">>
LowerCase == <<"a","b","c","d","e","f","g","h","i","j","k","l","m","n","o","p","q","r","s","t","u","v","w","x","y","z">>

\* str.lower() / str.upper() on one character
LowerChar(c) ==
  IF \E i \in 1..26 : UpperCase[i] = c
    THEN LowerCase[CHOOSE i \in 1..26 : UpperCase[i] = c]
    ELSE c
UpperChar(c) ==
  IF \E i \in 1..26 : LowerCase[i] = c
    THEN UpperCase[CHOOSE i \in 1..26 : LowerCase[i] = c]
    ELSE c
Lower(s) == [i \in 1..Len(s) |-> LowerChar(s[i])]
Upper(s) == [i \in 1..Len(s) |-> UpperChar(s[i])]

\* Python's `k in t` on strings
IsSubstring(k, t) ==
  \E i \in 1..(Len(t) - Len(k) + 1) : SubSeq(t, i, i + Len(k) - 1) = k

\* agent names
CLAUDE == <<"C","L","A","U","D","E">>
claude == <<"c","l","a","u","d","e">>
GEMINI == <<"G","E","M","I","N","I">>
gemini == <<"g","e","m","i","n","i">>
openai == <<"o","p","e","n","a","i">>

\* review texts: empty, with a positive marker (in upper case), and with a
\* negative marker that has a positive marker inside it ("correct")
T_empty == <<>>
T_lgtm == <<"L","G","T","M">>
T_incorrect == <<"i","n","c","o","r","r","e","c","t">>
T_diff == <<"d","i","f","f">>

\* The keyword lists of _check_round_consensus. The three Korean entries of
\* each list are left out: every text of the model is ASCII, so they cannot
\* match.
positive_keywords ==
  << <<"a","p","p","r","o","v","e">>,
     <<"a","p","p","r","o","v","e","d">>,
     <<"a","c","c","e","p","t">>,
     <<"a","c","c","e","p","t","e","d">>,
     <<"g","o","o","d">>,
     <<"a","g","r","e","e">>,
     <<"a","g","r","e","e","d">>,
     <<"l","o","o","k","s"," ","g","o","o","d">>,
     <<"l","g","t","m">>,
     <<"e","x","c","e","l","l","e","n","t">>,
     <<"w","e","l","l"," ","d","o","n","e">>,
     <<"c","o","m","p","r","e","h","e","n","s","i","v","e">>,
     <<"t","h","o","r","o","u","g","h">>,
     <<"a","c","c","u","r","a","t","e">>,
     <<"c","o","r","r","e","c","t">> >>

negative_keywords ==
  << <<"c","r","i","t","i","c","a","l">>,
     <<"m","u","s","t"," ","f","i","x">>,
     <<"s","e","r","i","o","u","s"," ","i","s","s","u","e">>,
     <<"c","o","n","c","e","r","n">>,
     <<"p","r","o","b","l","e","m">>,
     <<"i","n","c","o","r","r","e","c","t">>,
     <<"m","i","s","s","i","n","g">>,
     <<"o","v","e","r","l","o","o","k","e","d">>,
     <<"d","i","s","a","g","r","e","e">>,
     <<"r","e","j","e","c","t">>,
     <<"n","o","t"," ","e","n","o","u","g","h">>,
     <<"i","n","s","u","f","f","i","c","i","e","n","t">>,
     <<"i","n","c","o","m","p","l","e","t","e">> >>

-----------------------------------------------------------------------------
(* Inputs *)

\* names under which submit_review is called by the controller
AgentNames == {CLAUDE, claude, GEMINI}
\* review texts passed to submit_review / finalize_review
Texts == {T_empty, T_lgtm, T_incorrect}
\* non-empty replies of an invoked peer agent
PeerReplies == {T_lgtm}
\* outcome of one peer invocation: a reply, or the failure of call_ai
Failure == None
PeerOutcomes == {Failure} \cup {Some(r) : r \in PeerReplies}
\* keys of ALL_AI_MODELS that the model manager can report as available
PeerKeys == {openai, gemini}
\* result of ModelManager.get_available_models(), in dictionary order
AvailableChoices == {<<claude, openai, gemini>>}
\* curated_data arguments: None or a change document
CuratedChoices == {None, Some(T_diff)}
\* target_ais arguments: None or a list of upper-case names
TargetAIChoices == {None, Some(<<GEMINI>>)}
\* max_rounds arguments
MaxRoundsChoices == 0..MaxRoundsArg
\* branch arguments
BaseBranch == "develop"
TargetBranch == "HEAD"

\* Python truthiness of an Optional[str] / Optional[list]
Truthy(opt) == opt # None /\ opt[1] # <<>>

-----------------------------------------------------------------------------
(* ReviewSession *)

\* session_id = f"review_{int(time.time())}_{id(self)}": the clock second of
\* the call and the address of the one orchestrator object, which is the same
\* in every call
SessionIdOf(t) == <<"review", t, "orchestrator">>

\* ReviewSession.__init__. reviews and progress are Python dicts; they are
\* kept as sequences of entries in insertion order, which is the order every
\* loop over them follows. The time stamp stored with a review content and
\* the verbosity are not read by any modelled decision and are left out.
NewSession(session_id, base, target, curated_data, max_rounds, target_ais, t) ==
  [ session_id |-> session_id,
    base_branch |-> base,
    target_branch |-> target,
    created_at |-> t,
    reviews |-> <<>>,
    current_round |-> 1,
    max_rounds |-> max_rounds,
    consensus_reached |-> FALSE,
    final_review |-> None,
    progress |-> <<>>,
    curated_data |-> curated_data,
    target_ais |-> target_ais,
    auto_peer_review_triggered |-> FALSE ]

\* `ai_name in d` for a dict kept as a sequence of entries
HasAgent(entries, ai_name) ==
  \E i \in 1..Len(entries) : entries[i].ai_name = ai_name

\* ReviewSession.submit_review: the session after the call
Session_submit_review(s, ai_name, round_num, review) ==
  LET rs == IF HasAgent(s.reviews, ai_name)
              THEN s.reviews
              ELSE Append(s.reviews, [ai_name |-> ai_name, rounds |-> <<>>])
  IN [s EXCEPT !.reviews =
        [i \in 1..Len(rs) |->
           IF rs[i].ai_name = ai_name
             THEN [rs[i] EXCEPT !.rounds = (round_num :> review) @@ rs[i].rounds]
             ELSE rs[i]]]

\* ReviewSession.submit_review: the returned dict
Session_submit_result(s, ai_name, round_num, review) ==
  [ status |-> "accepted",
    ai_name |-> ai_name,
    round |-> round_num,
    total_ais |-> Len(Session_submit_review(s, ai_name, round_num, review).reviews) ]

\* ReviewSession.get_other_reviews
Session_get_other_reviews(s, requesting_ai, round_num) ==
  LET sel == SelectSeq(s.reviews,
                LAMBDA e : e.ai_name # requesting_ai /\ round_num \in DOMAIN e.rounds)
  IN [i \in 1..Len(sel) |->
        [ai_name |-> sel[i].ai_name, review |-> sel[i].rounds[round_num]]]

\* ReviewSession.check_consensus
Session_check_consensus(s) ==
  LET submitted == Cardinality({i \in 1..Len(s.reviews) :
                                  s.current_round \in DOMAIN s.reviews[i].rounds})
  IN [ round |-> s.current_round,
       submitted |-> submitted,
       total_ais |-> Len(s.reviews),
       all_submitted |-> (submitted = Len(s.reviews)),
       consensus_reached |-> s.consensus_reached ]

\* advance_round with the ceiling test off by one (`>` for `>=`)
Session_advance_round_past_ceiling(s) ==
  IF s.current_round > s.max_rounds
    THEN [ session |-> s,
           result |-> [status |-> "max_rounds_reached",
                       current_round |-> s.current_round] ]
    ELSE [ session |-> [s EXCEPT !.current_round = s.current_round + 1],
           result |-> [status |-> "advanced",
                       current_round |-> s.current_round + 1] ]

\* ReviewSession.advance_round: the session after the call and the result
Session_advance_round(s) ==
  IF s.current_round >= s.max_rounds
    THEN [ session |-> s,
           result |-> [status |-> "max_rounds_reached",
                       current_round |-> s.current_round] ]
    ELSE [ session |-> [s EXCEPT !.current_round = s.current_round + 1],
           result |-> [status |-> "advanced",
                       current_round |-> s.current_round + 1] ]

\* sum(len(rounds) for rounds in self.reviews.values())
RECURSIVE TotalReviews(_)
TotalReviews(entries) ==
  IF entries = <<>> THEN 0
  ELSE Cardinality(DOMAIN Head(entries).rounds) + TotalReviews(Tail(entries))

\* ReviewSession.finalize: the session after the call and the result
Session_finalize(s, final_review) ==
  [ session |-> [s EXCEPT !.consensus_reached = TRUE,
                          !.final_review = Some(final_review)],
    result |-> [status |-> "finalized",
                rounds_completed |-> s.current_round,
                total_reviews |-> TotalReviews(s.reviews)] ]

-----------------------------------------------------------------------------
(* Consensus signal *)

\* keyword.lower() for every keyword of a list
LowerAll(keywords) == [k \in 1..Len(keywords) |-> Lower(keywords[k])]
lower_positive == LowerAll(positive_keywords)
lower_negative == LowerAll(negative_keywords)

\* `for keyword in keywords: if keyword.lower() in review_text: ...; break`,
\* on the lowered keywords
HasKeyword(review_text, lowered) ==
  \E k \in 1..Len(lowered) : IsSubstring(lowered[k], review_text)

\* the loop `for fb in peer_feedbacks`, counting the feedbacks that contain a
\* keyword of the list, each feedback once
RECURSIVE CountFeedbacks(_, _)
CountFeedbacks(peer_feedbacks, lowered) ==
  IF peer_feedbacks = <<>> THEN 0
  ELSE (IF HasKeyword(Lower(Head(peer_feedbacks).review), lowered) THEN 1 ELSE 0)
       + CountFeedbacks(Tail(peer_feedbacks), lowered)

\* ReviewOrchestrator._check_round_consensus. `positive_count >=
\* total_feedbacks * 0.5` is compared on integers as 2 * positive >= total.
\* The result for no feedback carries the counts as 0 (the code omits them).
check_round_consensus(s) ==
  LET peer_feedbacks == Session_get_other_reviews(s, CLAUDE, s.current_round)
      positive_count == CountFeedbacks(peer_feedbacks, lower_positive)
      negative_count == CountFeedbacks(peer_feedbacks, lower_negative)
      total_feedbacks == Len(peer_feedbacks)
  IN IF peer_feedbacks = <<>>
       THEN [ consensus_reached |-> FALSE,
              positive_count |-> 0, negative_count |-> 0, total_feedbacks |-> 0 ]
       ELSE [ consensus_reached |->
                (positive_count > negative_count
                   /\ 2 * positive_count >= total_feedbacks),
              positive_count |-> positive_count,
              negative_count |-> negative_count,
              total_feedbacks |-> total_feedbacks ]

-----------------------------------------------------------------------------
(* Peer reviews and artifacts *)

\* membership in a Python list
InList(x, list) == \E i \in 1..Len(list) : list[i] = x

\* the reviewer_ais dictionary of _trigger_peer_reviews, in dictionary order
reviewer_ais(s, available_ais) ==
  IF Truthy(s.target_ais)
    THEN SelectSeq(available_ais,
           LAMBDA k : InList(Upper(k), s.target_ais[1]) /\ k # claude)
    ELSE SelectSeq(available_ais, LAMBDA k : k # claude)

\* session.reviews.get("CLAUDE", {}).get(1, {}).get("content", "")
claude_review(s) ==
  IF \E i \in 1..Len(s.reviews) :
       s.reviews[i].ai_name = CLAUDE /\ 1 \in DOMAIN s.reviews[i].rounds
    THEN LET i == CHOOSE j \in 1..Len(s.reviews) : s.reviews[j].ai_name = CLAUDE
         IN s.reviews[i].rounds[1]
    ELSE <<>>

\* the peer loop without its try/except: the first failing call_ai ends it
RECURSIVE peer_review_loop_abort(_, _, _)
peer_review_loop_abort(s, ais, outcome) ==
  IF ais = <<>>
    THEN [session |-> s, peer_results |-> <<>>]
    ELSE LET k == Head(ais)
             rest == peer_review_loop_abort(
                       Session_submit_review(s, Upper(k), 1, outcome[k][1]),
                       Tail(ais), outcome)
         IN IF outcome[k] = Failure
              THEN [ session |-> s,
                     peer_results |-> <<[ai |-> k, status |-> "error"]>> ]
              ELSE [ session |-> rest.session,
                     peer_results |->
                       <<[ai |-> k, status |-> "success"]>> \o rest.peer_results ]

\* the loop `for ai_name, ai_model in reviewer_ais.items()`: outcome[k] is what
\* ai_client.call_ai does for peer k, a reply or an exception, which the
\* except clause turns into an "error" entry
RECURSIVE peer_review_loop(_, _, _)
peer_review_loop(s, ais, outcome) ==
  IF ais = <<>>
    THEN [session |-> s, peer_results |-> <<>>]
    ELSE LET k == Head(ais)
             failed == outcome[k] = Failure
             s1 == IF failed THEN s
                   ELSE Session_submit_review(s, Upper(k), 1, outcome[k][1])
             entry == [ai |-> k, status |-> IF failed THEN "error" ELSE "success"]
             rest == peer_review_loop(s1, Tail(ais), outcome)
         IN [ session |-> rest.session,
              peer_results |-> <<entry>> \o rest.peer_results ]

\* ReviewOrchestrator._trigger_peer_reviews: the session after the call, the
\* returned list and the peers for which call_ai was invoked
trigger_peer_reviews(s, available_ais, outcome) ==
  LET s1 == [s EXCEPT !.auto_peer_review_triggered = TRUE]
      ais == reviewer_ais(s1, available_ais)
      loop == peer_review_loop(s1, ais, outcome)
  IN IF s.auto_peer_review_triggered
       THEN [session |-> s, peer_results |-> <<>>, invoked |-> <<>>]
     ELSE IF ais = <<>>
       THEN [session |-> s1, peer_results |-> <<>>, invoked |-> <<>>]
     ELSE IF claude_review(s1) = <<>>
       THEN [session |-> s1, peer_results |-> <<>>, invoked |-> <<>>]
     ELSE [session |-> loop.session, peer_results |-> loop.peer_results,
           invoked |-> ais]

\* ReviewOrchestrator._generate_improvement_prompt: the parts the prompt is
\* made of
generate_improvement_prompt(s, current_review, peer_feedbacks) ==
  [ round |-> s.current_round,
    current_review |-> current_review,
    peer_feedbacks |-> peer_feedbacks ]

\* save_review_artifacts: the directory
\* docs/reviews/{session.target_branch}-{%Y%m%d-%H%M%S}
artifact_dir(s, t) == <<s.target_branch, t>>

\* save_review_artifacts: what consensus.json and statistics.json record
artifact_bundle(s) ==
  [ session_id |-> s.session_id,
    consensus_reached |-> s.consensus_reached,
    rounds |-> s.current_round,
    participating_ais |-> Len(s.reviews) ]

-----------------------------------------------------------------------------
(* ReviewOrchestrator.submit_review on a session that exists *)

\* submit_review with the automatic trigger taken for every submitting name
submit_review_outcome_any_agent(s0, ai_name, review, available_ais, outcome, t) ==
  LET s == Session_submit_review(s0, ai_name, s0.current_round, review)
      result == Session_submit_result(s0, ai_name, s0.current_round, review)
      c == check_round_consensus(s)
      tr == trigger_peer_reviews(s, available_ais, outcome)
      reached == [s EXCEPT !.consensus_reached = TRUE,
                           !.final_review = Some(review)]
      forced == [s EXCEPT !.consensus_reached = FALSE,
                          !.final_review = Some(review)]
      next == [tr.session EXCEPT !.current_round = tr.session.current_round + 1]
      peer_feedbacks == Session_get_other_reviews(next, CLAUDE, next.current_round - 1)
  IN IF Truthy(s.curated_data)
       THEN IF s.current_round = 1 /\ ~s.auto_peer_review_triggered
              THEN [ session |-> tr.session,
                     result |-> [peer_reviews_triggered |-> TRUE,
                                 peer_reviews |-> tr.peer_results] @@ result,
                     invoked |-> tr.invoked,
                     bundle |-> None,
                     consensus |-> None ]
            ELSE IF s.current_round >= 2
              THEN IF c.consensus_reached
                     THEN [ session |-> reached,
                            result |-> [status |-> "consensus_reached",
                                        final_report |-> artifact_dir(reached, t),
                                        consensus_details |-> c] @@ result,
                            invoked |-> <<>>,
                            bundle |-> Some(artifact_dir(reached, t)),
                            consensus |-> Some(c) ]
                   ELSE IF s.current_round >= s.max_rounds
                     THEN [ session |-> forced,
                            result |-> [status |-> "max_rounds_reached",
                                        final_report |-> artifact_dir(forced, t)]
                                       @@ result,
                            invoked |-> <<>>,
                            bundle |-> Some(artifact_dir(forced, t)),
                            consensus |-> Some(c) ]
                   ELSE [ session |-> next,
                          result |-> [status |-> "awaiting_improvement",
                                      current_round |-> next.current_round,
                                      peer_feedbacks_count |-> Len(peer_feedbacks),
                                      improvement_prompt |->
                                        generate_improvement_prompt(
                                          next, review, peer_feedbacks),
                                      next_tool |-> "submit_review"] @@ result,
                          invoked |-> tr.invoked,
                          bundle |-> None,
                          consensus |-> Some(c) ]
            ELSE [ session |-> s, result |-> result, invoked |-> <<>>,
                   bundle |-> None, consensus |-> None ]
       ELSE [ session |-> s, result |-> result, invoked |-> <<>>,
              bundle |-> None, consensus |-> None ]

\* The session after the call, the returned dict, the peers invoked, the
\* artifact directory written (None when create_review_response is not called)
\* and the result of _check_round_consensus (None when it is not called)
submit_review_outcome(s0, ai_name, review, available_ais, outcome, t) ==
  LET s == Session_submit_review(s0, ai_name, s0.current_round, review)
      result == Session_submit_result(s0, ai_name, s0.current_round, review)
      c == check_round_consensus(s)
      tr == trigger_peer_reviews(s, available_ais, outcome)
      reached == [s EXCEPT !.consensus_reached = TRUE,
                           !.final_review = Some(review)]
      forced == [s EXCEPT !.consensus_reached = FALSE,
                          !.final_review = Some(review)]
      next == [tr.session EXCEPT !.current_round = tr.session.current_round + 1]
      peer_feedbacks == Session_get_other_reviews(next, CLAUDE, next.current_round - 1)
  IN IF Upper(ai_name) = CLAUDE /\ Truthy(s.curated_data)
       THEN IF s.current_round = 1 /\ ~s.auto_peer_review_triggered
              THEN [ session |-> tr.session,
                     result |-> [peer_reviews_triggered |-> TRUE,
                                 peer_reviews |-> tr.peer_results] @@ result,
                     invoked |-> tr.invoked,
                     bundle |-> None,
                     consensus |-> None ]
            ELSE IF s.current_round >= 2
              THEN IF c.consensus_reached
                     THEN [ session |-> reached,
                            result |-> [status |-> "consensus_reached",
                                        final_report |-> artifact_dir(reached, t),
                                        consensus_details |-> c] @@ result,
                            invoked |-> <<>>,
                            bundle |-> Some(artifact_dir(reached, t)),
                            consensus |-> Some(c) ]
                   ELSE IF s.current_round >= s.max_rounds
                     THEN [ session |-> forced,
                            result |-> [status |-> "max_rounds_reached",
                                        final_report |-> artifact_dir(forced, t)]
                                       @@ result,
                            invoked |-> <<>>,
                            bundle |-> Some(artifact_dir(forced, t)),
                            consensus |-> Some(c) ]
                   ELSE [ session |-> next,
                          result |-> [status |-> "awaiting_improvement",
                                      current_round |-> next.current_round,
                                      peer_feedbacks_count |-> Len(peer_feedbacks),
                                      improvement_prompt |->
                                        generate_improvement_prompt(
                                          next, review, peer_feedbacks),
                                      next_tool |-> "submit_review"] @@ result,
                          invoked |-> tr.invoked,
                          bundle |-> None,
                          consensus |-> Some(c) ]
            ELSE [ session |-> s, result |-> result, invoked |-> <<>>,
                   bundle |-> None, consensus |-> None ]
       ELSE [ session |-> s, result |-> result, invoked |-> <<>>,
              bundle |-> None, consensus |-> None ]

-----------------------------------------------------------------------------
(* State *)

VARIABLES
  now,        \* int(time.time()): the wall clock in seconds
  sessions,   \* ReviewOrchestrator.sessions: session id -> ReviewSession
  artifacts,  \* the artifact directories on disk: directory -> bundle
  calls,      \* number of calls made so far that changed the store
  lastCall,   \* the latest orchestrator call and what it returned
  stdout,     \* the response lines MCPServer.run has printed
  alive,      \* whether the loop of MCPServer.run is still reading lines
  linesRead,  \* number of input lines read from stdin so far
  lastLine,   \* the latest input line read and what the loop did with it
  changeSource, \* what git answers to the three queries of the DataCurator
  curation,   \* the DataCurator: its budget and its curate_changes call
  calculator, \* the ConsensusCalculator: its issues and its latest add_issue
  consensus,  \* the latest calculate_consensus call and what it returned
  truncation, \* the truncate_to_tokens calls: whether tiktoken can be
              \* imported, the arguments and what the latest call returned
  client      \* the AIClient: its latest call, what the command line tool
              \* did on each invocation and what the call gave back

orchestratorVars == <<now, sessions, artifacts, calls, lastCall>>
serverVars == <<stdout, alive, linesRead, lastLine>>
curatorVars == <<changeSource, curation>>
calculatorVars == <<calculator, consensus>>
counterVars == <<truncation>>
clientVars == <<client>>
vars == <<orchestratorVars, serverVars, curatorVars, calculatorVars, counterVars,
         clientVars>>

\* the state outside the orchestrator, which no orchestrator call touches
outsideOrchestrator == <<serverVars, curatorVars, calculatorVars, counterVars,
                        clientVars>>

\* the state outside the protocol server and outside the curator
outsideServer == <<curatorVars, calculatorVars, counterVars, clientVars>>
outsideCurator == <<orchestratorVars, serverVars, calculatorVars, counterVars,
                   clientVars>>
outsideCalculator == <<orchestratorVars, serverVars, curatorVars, counterVars,
                      clientVars>>
outsideCounter == <<orchestratorVars, serverVars, curatorVars, calculatorVars,
                   clientVars>>
outsideClient == <<orchestratorVars, serverVars, curatorVars, calculatorVars,
                  counterVars>>

\* the session ids a controller may pass: those of sessions created at some
\* second of the clock, whether or not such a session was ever created
SessionIds == {SessionIdOf(t) : t \in 0..MaxTime}

\* {"error": "Session not found"}
NotFound == [error |-> "Session not found"]

\* the record of a call: operation, session id and returned value
Call(op, session_id, result) ==
  [ op |-> op, session_id |-> session_id, ai_name |-> None, result |-> result,
    invoked |-> <<>>, bundle |-> None, consensus |-> None ]

\* a submit_review call that found its session: also the submitting name, the
\* peers for which call_ai was invoked, the artifact directory written and the
\* consensus signal computed (None when the call did not get there)
SubmitCall(session_id, ai_name, out) ==
  [ op |-> "submit_review", session_id |-> session_id, ai_name |-> Some(ai_name),
    result |-> out.result, invoked |-> out.invoked, bundle |-> out.bundle,
    consensus |-> out.consensus ]

\* ReviewOrchestrator.__init__: no session, nothing written, no call made
OrchestratorInit ==
  /\ now = 0
  /\ sessions = <<>>
  /\ artifacts = <<>>
  /\ calls = 0
  /\ lastCall = Call("none", None, [status |-> "none"])

\* what MCPServer.run did with an input line: the line, how the iteration
\* ended and the response line it printed, if any
LineRecord(line, outcome, response) ==
  [ line |-> line, outcome |-> outcome, response |-> response ]

\* MCPServer.run before its first line: nothing read, nothing printed
ServerInit ==
  /\ stdout = <<>>
  /\ alive = TRUE
  /\ linesRead = 0
  /\ lastLine = LineRecord(<<>>, "none", None)

\* DataCurator.__init__ and the locals of a curate_changes call that has not
\* started: nothing listed, nothing selected, nothing returned; `walked` is
\* the number of files the loop of _select_within_budget has gone through
NewCuration(token_budget) ==
  [ token_budget |-> token_budget, pc |-> "start", all_files |-> <<>>,
    prioritized |-> <<>>, walked |-> 0, curated |-> <<>>, skipped |-> <<>>,
    current_tokens |-> 0, warnings |-> <<>>, result |-> None ]

\* what a git command run by the curator comes to: its output, a non-zero exit
\* status (CalledProcessError) or the timeout (TimeoutExpired)
GitOk(value) == [kind |-> "ok", value |-> value]
GitError == [kind |-> "error"]
GitTimeout == [kind |-> "timeout"]

\* a curator with the default budget over a range without changes
CuratorInit ==
  /\ changeSource = [names |-> GitOk(<<>>), numstat |-> <<>>, diff |-> <<>>]
  /\ curation = NewCuration(20000)

\* ConsensusCalculator.__init__: no issue registered, add_issue never called
CalculatorInit ==
  /\ calculator = [issues |-> <<>>, added |-> 0, last |-> None]
  /\ consensus = [op |-> "none", session_info |-> None, total_ais |-> 0,
                  result |-> None]

\* no truncate_to_tokens call was made; tiktoken cannot be imported
CounterInit ==
  truncation = [tiktoken |-> FALSE, text |-> <<>>, max_tokens |-> 0,
                suffix |-> <<>>, calls |-> 0, result |-> None]

\* AIClient.__init__: no call was made
ClientInit ==
  client = [op |-> "none", max_retries |-> 0, runs |-> <<>>, result |-> None]

Init ==
  /\ OrchestratorInit
  /\ ServerInit
  /\ CuratorInit
  /\ CalculatorInit
  /\ CounterInit
  /\ ClientInit

\* the wall clock advances
Tick ==
  /\ now < MaxTime
  /\ now' = now + 1
  /\ UNCHANGED <<sessions, artifacts, calls, lastCall>>
  /\ UNCHANGED outsideOrchestrator

\* ReviewOrchestrator.create_review_session
create_review_session(base, target, curated_data, max_rounds, target_ais) ==
  /\ LET session_id == SessionIdOf(now)
         session == NewSession(session_id, base, target, curated_data,
                               max_rounds, target_ais, now)
     IN /\ calls < MaxCalls
        /\ sessions' = (session_id :> session) @@ sessions
        /\ calls' = calls + 1
        /\ lastCall' = Call("create_review_session", session_id,
                            [session_id |-> session_id])
        /\ UNCHANGED <<now, artifacts>>
  /\ UNCHANGED outsideOrchestrator

\* ReviewOrchestrator.submit_review
submit_review(session_id, ai_name, review, available_ais, outcome) ==
  /\ IF session_id \notin DOMAIN sessions
       THEN /\ lastCall' = Call("submit_review", session_id, NotFound)
            /\ UNCHANGED <<now, sessions, artifacts, calls>>
       ELSE LET out == submit_review_outcome(sessions[session_id], ai_name, review,
                                             available_ais, outcome, now)
            IN /\ calls < MaxCalls
               /\ sessions' = [sessions EXCEPT ![session_id] = out.session]
               /\ artifacts' = IF out.bundle = None THEN artifacts
                               ELSE (out.bundle[1] :> artifact_bundle(out.session))
                                      @@ artifacts
               /\ calls' = calls + 1
               /\ lastCall' = SubmitCall(session_id, ai_name, out)
               /\ UNCHANGED now
  /\ UNCHANGED outsideOrchestrator

\* ReviewOrchestrator.get_other_reviews
get_other_reviews(session_id, ai_name) ==
  /\ lastCall' =
       Call("get_other_reviews", session_id,
            IF session_id \notin DOMAIN sessions
              THEN [list |-> <<>>]
              ELSE [list |-> Session_get_other_reviews(
                               sessions[session_id], ai_name,
                               sessions[session_id].current_round)])
  /\ UNCHANGED <<now, sessions, artifacts, calls>>
  /\ UNCHANGED outsideOrchestrator

\* ReviewOrchestrator.check_consensus
check_consensus(session_id) ==
  /\ lastCall' =
       Call("check_consensus", session_id,
            IF session_id \notin DOMAIN sessions
              THEN NotFound
              ELSE Session_check_consensus(sessions[session_id]))
  /\ UNCHANGED <<now, sessions, artifacts, calls>>
  /\ UNCHANGED outsideOrchestrator

\* ReviewOrchestrator.advance_round
advance_round(session_id) ==
  /\ IF session_id \notin DOMAIN sessions
       THEN /\ lastCall' = Call("advance_round", session_id, NotFound)
            /\ UNCHANGED <<now, sessions, artifacts, calls>>
       ELSE LET out == Session_advance_round(sessions[session_id])
            IN /\ calls < MaxCalls
               /\ sessions' = [sessions EXCEPT ![session_id] = out.session]
               /\ calls' = calls + 1
               /\ lastCall' = Call("advance_round", session_id, out.result)
               /\ UNCHANGED <<now, artifacts>>
  /\ UNCHANGED outsideOrchestrator

\* ReviewOrchestrator.finalize_review
finalize_review(session_id, final_review) ==
  /\ IF session_id \notin DOMAIN sessions
       THEN /\ lastCall' = Call("finalize_review", session_id, NotFound)
            /\ UNCHANGED <<now, sessions, artifacts, calls>>
       ELSE LET out == Session_finalize(sessions[session_id], final_review)
            IN /\ calls < MaxCalls
               /\ sessions' = [sessions EXCEPT ![session_id] = out.session]
               /\ calls' = calls + 1
               /\ lastCall' = Call("finalize_review", session_id, out.result)
               /\ UNCHANGED <<now, artifacts>>
  /\ UNCHANGED outsideOrchestrator

\* ReviewOrchestrator.get_session_info
get_session_info(session_id) ==
  /\ lastCall' =
       Call("get_session_info", session_id,
            IF session_id \notin DOMAIN sessions
              THEN NotFound
              ELSE LET s == sessions[session_id]
                   IN [ session_id |-> s.session_id,
                        base_branch |-> s.base_branch,
                        target_branch |-> s.target_branch,
                        current_round |-> s.current_round,
                        max_rounds |-> s.max_rounds,
                        participating_ais |->
                          [i \in 1..Len(s.reviews) |-> s.reviews[i].ai_name],
                        consensus_reached |-> s.consensus_reached,
                        created_at |-> s.created_at ])
  /\ UNCHANGED <<now, sessions, artifacts, calls>>
  /\ UNCHANGED outsideOrchestrator

\* the progress dict of a session with one more entry for ai_name
AppendProgress(progress, ai_name, entry) ==
  LET ps == IF HasAgent(progress, ai_name)
              THEN progress
              ELSE Append(progress, [ai_name |-> ai_name, log |-> <<>>])
  IN [i \in 1..Len(ps) |->
        IF ps[i].ai_name = ai_name
          THEN [ps[i] EXCEPT !.log = Append(ps[i].log, entry)]
          ELSE ps[i]]

\* len(session.progress.get(ai_name, []))
ProgressLen(progress, ai_name) ==
  IF HasAgent(progress, ai_name)
    THEN Len(progress[CHOOSE i \in 1..Len(progress) :
                        progress[i].ai_name = ai_name].log)
    ELSE 0

\* ReviewOrchestrator.report_progress
report_progress(session_id, ai_name, message) ==
  /\ IF session_id \notin DOMAIN sessions
       THEN /\ lastCall' = Call("report_progress", session_id, NotFound)
            /\ UNCHANGED <<now, sessions, artifacts, calls>>
       ELSE /\ calls < MaxCalls
            /\ ProgressLen(sessions[session_id].progress, ai_name) < MaxProgress
            /\ sessions' = [sessions EXCEPT ![session_id].progress =
                              AppendProgress(@, ai_name,
                                [message |-> message, timestamp |-> now])]
            /\ calls' = calls + 1
            /\ lastCall' = Call("report_progress", session_id,
                                [status |-> "progress_recorded",
                                 ai_name |-> ai_name, message |-> message])
            /\ UNCHANGED <<now, artifacts>>
  /\ UNCHANGED outsideOrchestrator

\* the updates list of get_progress before it is sorted: every entry newer
\* than `since`, agent by agent in dictionary order
RECURSIVE ProgressUpdates(_, _)
ProgressUpdates(progress, since) ==
  IF progress = <<>> THEN <<>>
  ELSE LET p == Head(progress)
           newer == SelectSeq(p.log, LAMBDA e : e.timestamp > since)
       IN [i \in 1..Len(newer) |->
             [ai_name |-> p.ai_name, message |-> newer[i].message,
              timestamp |-> newer[i].timestamp]]
          \o ProgressUpdates(Tail(progress), since)

\* updates.sort(key=lambda x: x["timestamp"]), a stable sort
RECURSIVE SortByTimestamp(_)
SortByTimestamp(updates) ==
  IF updates = <<>> THEN <<>>
  ELSE LET x == updates[Len(updates)]
           rest == SortByTimestamp(SubSeq(updates, 1, Len(updates) - 1))
       IN SelectSeq(rest, LAMBDA e : e.timestamp <= x.timestamp)
          \o <<x>>
          \o SelectSeq(rest, LAMBDA e : e.timestamp > x.timestamp)

\* ReviewOrchestrator.get_progress
get_progress(session_id, since) ==
  /\ lastCall' =
       Call("get_progress", session_id,
            IF session_id \notin DOMAIN sessions
              THEN NotFound
              ELSE LET updates == SortByTimestamp(
                          ProgressUpdates(sessions[session_id].progress, since))
                   IN [ session_id |-> session_id, updates |-> updates,
                        count |-> Len(updates) ])
  /\ UNCHANGED <<now, sessions, artifacts, calls>>
  /\ UNCHANGED outsideOrchestrator

\* names and messages passed to report_progress, `since` passed to get_progress
ProgressAgents == {GEMINI}
Messages == {"analyzing"}
SinceChoices == {-1, 0}

\* The outcomes of the peer invocations a submit_review call can make: call_ai
\* has an outcome only for a call that reaches the invocation loop
PeerOutcomeChoices(session_id, ai_name, review) ==
  LET none == [k \in PeerKeys |-> Failure]
  IN IF session_id \in DOMAIN sessions
          /\ calls < MaxCalls
          /\ \E av \in AvailableChoices :
               submit_review_outcome(sessions[session_id], ai_name, review,
                                     av, none, now).invoked # <<>>
       THEN [PeerKeys -> PeerOutcomes]
       ELSE {none}

\* the calls that change a session, with inputs from the given sets
SessionCalls(ids, names, texts) ==
  \/ \E sid \in ids, n \in names, r \in texts, av \in AvailableChoices :
       \E o \in PeerOutcomeChoices(sid, n, r) : submit_review(sid, n, r, av, o)
  \/ \E sid \in ids : advance_round(sid)
  \/ \E sid \in ids, r \in texts : finalize_review(sid, r)

\* the calls that write or read the progress log, and the calls that only
\* read a session
SessionReads(ids, names) ==
  \/ \E sid \in ids, n \in ProgressAgents, m \in Messages :
       report_progress(sid, n, m)
  \/ \E sid \in ids, n \in names : get_other_reviews(sid, n)
  \/ \E sid \in ids : check_consensus(sid)
  \/ \E sid \in ids : get_session_info(sid)
  \/ \E sid \in ids, t \in SinceChoices : get_progress(sid, t)

\* Spec: the life of a session within one clock second, under every input of
\* the calls that drive it
Next ==
  \/ \E c \in CuratedChoices, m \in MaxRoundsChoices, a \in TargetAIChoices :
       create_review_session(BaseBranch, TargetBranch, c, m, a)
  \/ SessionCalls(DOMAIN sessions, AgentNames, Texts)

Spec == Init /\ [][Next]_vars

\* SpecStore: the session store over several clock seconds, every operation
\* of the orchestrator called with known and unknown session ids, the lead
\* agent submitting
NextStore ==
  \/ Tick
  \/ create_review_session(BaseBranch, TargetBranch, Some(T_diff), 2, None)
  \/ SessionCalls(SessionIds, {CLAUDE}, {T_lgtm})
  \/ SessionReads(SessionIds, {CLAUDE})

SpecStore == Init /\ [][NextStore]_vars

-----------------------------------------------------------------------------
(* Notions used by the properties *)

\* a session is finalized once one of the three finalizing paths has set its
\* final review: ReviewSession.finalize, consensus reached, forced stop
Finalized(s) == s.final_review # None

\* the lead check of submit_review: ai_name.upper() == "CLAUDE"
IsLead(ai_name) == Upper(ai_name) = CLAUDE

\* self.reviews.get(ai_name, {})
RoundsOf(s, ai_name) ==
  IF HasAgent(s.reviews, ai_name)
    THEN s.reviews[CHOOSE i \in 1..Len(s.reviews) :
                     s.reviews[i].ai_name = ai_name].rounds
    ELSE <<>>

\* the step is a call of operation op that found session sid
CallStep(op, sid) ==
  /\ sid \in DOMAIN sessions
  /\ calls' = calls + 1
  /\ lastCall'.op = op
  /\ lastCall'.session_id = sid

\* the step is a submit_review under a lead name on a session with curated data
LeadSubmitStep(sid) ==
  /\ CallStep("submit_review", sid)
  /\ IsLead(lastCall'.ai_name[1])
  /\ Truthy(sessions[sid].curated_data)

\* the operations that take a session id
SessionOps ==
  { "submit_review", "get_other_reviews", "check_consensus", "advance_round",
    "finalize_review", "get_session_info", "report_progress", "get_progress" }

-----------------------------------------------------------------------------
(* Properties *)

\* C1: in every reachable state, every session has current_round <= max_rounds,
\* from its creation on and whatever max_rounds was passed.
C1_RoundWithinMax ==
  \A sid \in DOMAIN sessions :
    sessions[sid].current_round <= sessions[sid].max_rounds

\* C2: once a session is finalized, no later submit_review changes its
\* consensus_reached flag, its final_review or its current_round.
C2_FinalizedIsFrozen ==
  [][\A sid \in DOMAIN sessions :
       (CallStep("submit_review", sid) /\ Finalized(sessions[sid]))
         => /\ sessions'[sid].consensus_reached = sessions[sid].consensus_reached
            /\ sessions'[sid].final_review = sessions[sid].final_review
            /\ sessions'[sid].current_round = sessions[sid].current_round]_vars

\* C3: a lead submission in round N >= 2 of a session with curated data does
\* exactly one of: (a) consensus signal true: the session is finalized with
\* consensus_reached = TRUE; (b) signal false and N = max_rounds: the session
\* is finalized with consensus_reached = FALSE; (c) otherwise current_round
\* becomes N + 1 and the session is not finalized. An artifact bundle is
\* written in (a) and (b).
C3_LeadDecision ==
  [][\A sid \in DOMAIN sessions :
       (LeadSubmitStep(sid) /\ sessions[sid].current_round >= 2)
         => LET s == sessions[sid]
                s2 == sessions'[sid]
                N == s.current_round
                signal == lastCall'.consensus[1].consensus_reached
            IN /\ lastCall'.consensus # None
               /\ signal
                    => /\ Finalized(s2) /\ s2.consensus_reached
                       /\ s2.current_round = N
                       /\ lastCall'.bundle # None
                       /\ lastCall'.bundle[1] \in DOMAIN artifacts'
               /\ (~signal /\ N = s.max_rounds)
                    => /\ Finalized(s2) /\ ~s2.consensus_reached
                       /\ s2.current_round = N
                       /\ lastCall'.bundle # None
                       /\ lastCall'.bundle[1] \in DOMAIN artifacts'
               /\ (~signal /\ N # s.max_rounds)
                    => /\ s2.current_round = N + 1
                       /\ ~Finalized(s2)
                       /\ lastCall'.bundle = None]_vars

\* C4: in round 1 of a session with curated data, the first lead submission
\* (here: one with a non-empty text) invokes each available peer once, and every
\* further lead submission invokes no peer.
C4_PeersInvokedOnce ==
  [][\A sid \in DOMAIN sessions :
       ( /\ LeadSubmitStep(sid)
         /\ sessions[sid].current_round = 1
         /\ RoundsOf(sessions'[sid], lastCall'.ai_name[1])[1] # <<>> )
         => IF \E i \in 1..Len(sessions[sid].reviews) :
                 /\ IsLead(sessions[sid].reviews[i].ai_name)
                 /\ 1 \in DOMAIN sessions[sid].reviews[i].rounds
              THEN lastCall'.invoked = <<>>
              ELSE \E av \in AvailableChoices :
                     lastCall'.invoked = reviewer_ais(sessions[sid], av)]_vars

\* C5: when a lead submission in round N >= 2 finds no consensus and
\* N < max_rounds (in a session that holds the lead's round-1 review), every
\* available peer is invoked again, and the improvement prompt is built from
\* the feedback of the peers invoked in this call.
C5_PeersInvokedAgain ==
  [][\A sid \in DOMAIN sessions :
       ( /\ LeadSubmitStep(sid)
         /\ sessions[sid].current_round >= 2
         /\ claude_review(sessions[sid]) # <<>>
         /\ lastCall'.result.status = "awaiting_improvement" )
         => /\ \E av \in AvailableChoices :
                 lastCall'.invoked = reviewer_ais(sessions[sid], av)
            /\ \A j \in 1..Len(lastCall'.result.improvement_prompt.peer_feedbacks) :
                 \E i \in 1..Len(lastCall'.invoked) :
                   Upper(lastCall'.invoked[i]) =
                     lastCall'.result.improvement_prompt.peer_feedbacks[j].ai_name]_vars

\* C6: advance_round on a session with current_round = max_rounds returns the
\* status "max_rounds_reached" and leaves current_round unchanged; with
\* current_round < max_rounds it increases current_round by exactly 1 and
\* returns another status.
C6_AdvanceAtCeiling ==
  [][\A sid \in DOMAIN sessions :
       CallStep("advance_round", sid)
         => LET s == sessions[sid]
                s2 == sessions'[sid]
            IN /\ s.current_round = s.max_rounds
                    => /\ lastCall'.result.status = "max_rounds_reached"
                       /\ s2.current_round = s.current_round
               /\ s.current_round < s.max_rounds
                    => /\ lastCall'.result.status # "max_rounds_reached"
                       /\ s2.current_round = s.current_round + 1]_vars

\* C6 witness: advance_round has answered "max_rounds_reached" on a session
\* that had been advanced to its ceiling
C6_Witness ==
  /\ lastCall.op = "advance_round"
  /\ lastCall.session_id \in DOMAIN sessions
  /\ lastCall.result.status = "max_rounds_reached"
  /\ sessions[lastCall.session_id].current_round
       = sessions[lastCall.session_id].max_rounds
  /\ sessions[lastCall.session_id].current_round >= 2

\* the submissions of round `round` made under a name that is not a lead name
NonLeadInRound(s, round) ==
  { i \in 1..Len(s.reviews) :
      ~IsLead(s.reviews[i].ai_name) /\ round \in DOMAIN s.reviews[i].rounds }

\* the text contains at least one marker of the list
ContainsMarker(text, keywords) == HasKeyword(Lower(text), LowerAll(keywords))

\* P > Q and P >= 0.5 * T over the set of non-lead submissions of the round
SignalOverSet(s, round) ==
  LET T == Cardinality(NonLeadInRound(s, round))
      P == Cardinality({i \in NonLeadInRound(s, round) :
             ContainsMarker(s.reviews[i].rounds[round], positive_keywords)})
      Q == Cardinality({i \in NonLeadInRound(s, round) :
             ContainsMarker(s.reviews[i].rounds[round], negative_keywords)})
  IN T > 0 /\ P > Q /\ 2 * P >= T

\* C7: the consensus signal computed on a lead submission in round >= 2 is
\* true iff P > Q and P >= 0.5 * T over the non-lead submissions of the
\* current round (false when T = 0), a function of the set of submissions.
C7_SignalOverNonLead ==
  [][\A sid \in DOMAIN sessions :
       (LeadSubmitStep(sid) /\ sessions[sid].current_round >= 2)
         => /\ lastCall'.consensus # None
            /\ lastCall'.consensus[1].consensus_reached
                 = SignalOverSet(sessions'[sid], sessions[sid].current_round)]_vars

\* C8: when a peer invocation fails during a peer-review trigger, nothing is
\* recorded for that peer, every available peer is still invoked and the reply
\* of each peer that answered is recorded, the lead's own submission is
\* recorded, and submit_review returns its normal result.
C8_PeerFailureIsolated ==
  [][\A sid \in DOMAIN sessions :
       ( /\ CallStep("submit_review", sid)
         /\ "peer_reviews" \in DOMAIN lastCall'.result
         /\ \E i \in 1..Len(lastCall'.result.peer_reviews) :
              lastCall'.result.peer_reviews[i].status = "error" )
         => LET s == sessions[sid]
                s2 == sessions'[sid]
                peers == lastCall'.result.peer_reviews
            IN /\ lastCall'.result.status = "accepted"
               /\ \E av \in AvailableChoices :
                    lastCall'.invoked = reviewer_ais(s, av)
               /\ Len(peers) = Len(lastCall'.invoked)
               /\ \A i \in 1..Len(peers) :
                    /\ peers[i].ai = lastCall'.invoked[i]
                    /\ peers[i].status = "error"
                         => RoundsOf(s2, Upper(peers[i].ai))
                              = RoundsOf(s, Upper(peers[i].ai))
                    /\ peers[i].status # "error"
                         => /\ 1 \in DOMAIN RoundsOf(s2, Upper(peers[i].ai))
                            /\ RoundsOf(s2, Upper(peers[i].ai))[1] \in PeerReplies
               /\ s.current_round
                    \in DOMAIN RoundsOf(s2, lastCall'.ai_name[1])]_vars

\* C8 witness: a submit_review has returned normally with one peer failed and
\* another peer's reply recorded
C8_Witness ==
  /\ lastCall.op = "submit_review"
  /\ lastCall.session_id \in DOMAIN sessions
  /\ "peer_reviews" \in DOMAIN lastCall.result
  /\ \E i, j \in 1..Len(lastCall.result.peer_reviews) :
       /\ lastCall.result.peer_reviews[i].status = "error"
       /\ lastCall.result.peer_reviews[j].status = "success"
       /\ i < j
       /\ 1 \in DOMAIN RoundsOf(sessions[lastCall.session_id],
                                Upper(lastCall.result.peer_reviews[j].ai))

\* C9: every create_review_session returns an id that differs from the ids of
\* all sessions already in the store.
C9_FreshSessionId ==
  [][(lastCall'.op = "create_review_session" /\ calls' = calls + 1)
       => lastCall'.session_id \notin DOMAIN sessions]_vars

\* C10: every operation that takes a session id, called with an id that is not
\* in the store, returns the structured not-found result.
C10_UnknownIdIsNotFound ==
  (lastCall.op \in SessionOps /\ lastCall.session_id \notin DOMAIN sessions)
    => lastCall.result = NotFound

-----------------------------------------------------------------------------
(* JSON text, as json.dumps writes it and json.loads reads it.  A line is a
   sequence of characters; a JSON value is a record tagged with its type, an
   object keeping its members in order as a Python dict does. *)

JNull == [t |-> "null"]
JBool(b) == [t |-> "bool", b |-> b]
JNum(n) == [t |-> "num", n |-> n]
JStr(s) == [t |-> "str", s |-> s]
JArr(items) == [t |-> "arr", items |-> items]
JObj(items) == [t |-> "obj", items |-> items]
Member(key, val) == [key |-> key, val |-> val]

W_null == <<"n", "u", "l", "l">>
W_true == <<"t", "r", "u", "e">>
W_false == <<"f", "a", "l", "s", "e">>

Digits == <<"0", "1", "2", "3", "4", "5", "6", "7", "8", "9">>
IsDigit(c) == \E d \in 1..10 : Digits[d] = c
DigitValue(c) == (CHOOSE d \in 1..10 : Digits[d] = c) - 1

\* the decimal digits of a natural number
RECURSIVE NatChars(_)
NatChars(n) ==
  IF n < 10 THEN <<Digits[n + 1]>>
  ELSE NatChars(n \div 10) \o <<Digits[(n % 10) + 1]>>

IntChars(n) == IF n < 0 THEN <<"-">> \o NatChars(-n) ELSE NatChars(n)

\* the body of a JSON string: quote and backslash are escaped
RECURSIVE Escaped(_)
Escaped(s) ==
  IF s = <<>> THEN <<>>
  ELSE IF Len(s) = 1
    THEN (IF s[1] \in {"\"", "\\"} THEN <<"\\", s[1]>> ELSE s)
  ELSE Escaped(SubSeq(s, 1, Len(s) \div 2))
         \o Escaped(SubSeq(s, Len(s) \div 2 + 1, Len(s)))

\* json.dumps with its default separators ", " and ": "
RECURSIVE json_dumps(_)
RECURSIVE DumpItems(_, _)
json_dumps(v) ==
  CASE v.t = "null" -> W_null
    [] v.t = "bool" -> IF v.b THEN W_true ELSE W_false
    [] v.t = "num" -> IntChars(v.n)
    [] v.t = "str" -> <<"\"">> \o Escaped(v.s) \o <<"\"">>
    [] v.t = "arr" -> <<"[">> \o DumpItems(v.items, FALSE) \o <<"]">>
    [] v.t = "obj" -> <<"{">> \o DumpItems(v.items, TRUE) \o <<"}">>

DumpItems(items, members) ==
  IF items = <<>> THEN <<>>
  ELSE LET x == Head(items)
           one == IF members
                    THEN json_dumps(JStr(x.key)) \o <<":", " ">>
                           \o json_dumps(x.val)
                    ELSE json_dumps(x)
       IN one \o (IF Len(items) > 1 THEN <<",", " ">> ELSE <<>>)
              \o DumpItems(Tail(items), members)

\* the result of scanning a value: whether one was read, the value, and the
\* position after it
Scanned(v, i) == [ok |-> TRUE, val |-> v, pos |-> i]
ScanError(i) == [ok |-> FALSE, val |-> JNull, pos |-> i]

IsSpace(c) == c \in {" ", "\t", "\n", "\r"}

RECURSIVE SkipSpace(_, _)
SkipSpace(s, i) ==
  IF i <= Len(s) /\ IsSpace(s[i]) THEN SkipSpace(s, i + 1) ELSE i

HasPrefixAt(s, i, w) ==
  i + Len(w) - 1 <= Len(s) /\ SubSeq(s, i, i + Len(w) - 1) = w

\* the number of backslashes that end right before position j, counted from
\* position i on
BackslashesBefore(s, i, j) ==
  CHOOSE k \in 0..(j - i) :
    /\ \A m \in 1..k : s[j - m] = "\\"
    /\ (k < j - i => s[j - k - 1] # "\\")

\* the characters a string body stands for: a backslash that is not itself
\* escaped introduces an escape and is dropped
Unescaped(body) ==
  LET kept == {p \in 1..Len(body) :
                 ~(body[p] = "\\" /\ BackslashesBefore(body, 1, p) % 2 = 0)}
  IN [n \in 1..Cardinality(kept) |->
        body[CHOOSE p \in kept : Cardinality({q \in kept : q <= p}) = n]]

\* every escape of a string body is one of \" \\ and \/ (the lines drawn use
\* no other)
EscapesRead(body) ==
  \A p \in 1..Len(body) :
    (body[p] = "\\" /\ BackslashesBefore(body, 1, p) % 2 = 0)
      => (p < Len(body) /\ body[p + 1] \in {"\"", "\\", "/"})

\* a string from the character after its opening quote, up to the first quote
\* that is not escaped
ScanString(s, i) ==
  LET closes(j) == s[j] = "\"" /\ BackslashesBefore(s, i, j) % 2 = 0
      j == CHOOSE x \in i..Len(s) :
             closes(x) /\ \A y \in i..(x - 1) : ~closes(y)
      body == SubSeq(s, i, j - 1)
  IN IF \A x \in i..Len(s) : ~closes(x) THEN ScanError(i)
     ELSE IF \A p \in 1..Len(body) : body[p] # "\\"
       THEN Scanned(JStr(body), j + 1)
     ELSE IF EscapesRead(body) THEN Scanned(JStr(Unescaped(body)), j + 1)
     ELSE ScanError(i)

RECURSIVE ScanDigits(_, _, _)
ScanDigits(s, i, n) ==
  IF i <= Len(s) /\ IsDigit(s[i])
    THEN ScanDigits(s, i + 1, 10 * n + DigitValue(s[i]))
    ELSE Scanned(JNum(n), i)

\* an integer: "0" or a digit string without leading zero, after an optional
\* minus sign (fractions and exponents are not read, no line drawn has any)
ScanNat(s, i) ==
  IF i > Len(s) \/ ~IsDigit(s[i]) THEN ScanError(i)
  ELSE IF s[i] = "0" THEN Scanned(JNum(0), i + 1)
  ELSE ScanDigits(s, i, 0)

ScanNumber(s, i) ==
  IF s[i] = "-"
    THEN LET r == ScanNat(s, i + 1)
         IN IF r.ok THEN Scanned(JNum(0 - r.val.n), r.pos) ELSE r
    ELSE ScanNat(s, i)

\* json.decoder's scanner: one value starting at or after position i0
RECURSIVE ScanValue(_, _)
RECURSIVE ScanElements(_, _, _)
RECURSIVE ScanMembers(_, _, _)
ScanValue(s, i0) ==
  LET i == SkipSpace(s, i0)
  IN IF i > Len(s) THEN ScanError(i)
     ELSE CASE s[i] = "{" ->
                 LET j == SkipSpace(s, i + 1)
                 IN IF j <= Len(s) /\ s[j] = "}"
                      THEN Scanned(JObj(<<>>), j + 1)
                      ELSE ScanMembers(s, j, <<>>)
            [] s[i] = "[" ->
                 LET j == SkipSpace(s, i + 1)
                 IN IF j <= Len(s) /\ s[j] = "]"
                      THEN Scanned(JArr(<<>>), j + 1)
                      ELSE ScanElements(s, j, <<>>)
            [] s[i] = "\"" -> ScanString(s, i + 1)
            [] s[i] = "-" \/ IsDigit(s[i]) -> ScanNumber(s, i)
            [] HasPrefixAt(s, i, W_null) -> Scanned(JNull, i + 4)
            [] HasPrefixAt(s, i, W_true) -> Scanned(JBool(TRUE), i + 4)
            [] HasPrefixAt(s, i, W_false) -> Scanned(JBool(FALSE), i + 5)
            [] OTHER -> ScanError(i)

\* the elements of an array from position i, up to and including "]"
ScanElements(s, i, acc) ==
  LET r == ScanValue(s, i)
      k == SkipSpace(s, r.pos)
  IN IF ~r.ok \/ k > Len(s) THEN ScanError(k)
     ELSE IF s[k] = "," THEN ScanElements(s, k + 1, Append(acc, r.val))
     ELSE IF s[k] = "]" THEN Scanned(JArr(Append(acc, r.val)), k + 1)
     ELSE ScanError(k)

\* the members of an object from position i, up to and including "}"
ScanMembers(s, i, acc) ==
  LET q == SkipSpace(s, i)
      key == IF q <= Len(s) /\ s[q] = "\""
               THEN ScanString(s, q + 1) ELSE ScanError(q)
      c == SkipSpace(s, key.pos)
      r == IF key.ok /\ c <= Len(s) /\ s[c] = ":"
             THEN ScanValue(s, c + 1) ELSE ScanError(c)
      k == SkipSpace(s, r.pos)
      members == Append(acc, Member(key.val.s, r.val))
  IN IF ~r.ok \/ k > Len(s) THEN ScanError(k)
     ELSE IF s[k] = "," THEN ScanMembers(s, k + 1, members)
     ELSE IF s[k] = "}" THEN Scanned(JObj(members), k + 1)
     ELSE ScanError(k)

\* json.loads: the value of the whole line, or JSONDecodeError when the line
\* holds no value or holds anything after it
json_loads(s) ==
  LET r == ScanValue(s, 1)
  IN IF r.ok /\ SkipSpace(s, r.pos) > Len(s)
       THEN [ok |-> TRUE, val |-> r.val]
       ELSE [ok |-> FALSE, val |-> JNull]

\* str.strip
RECURSIVE strip(_)
strip(s) ==
  IF s = <<>> THEN s
  ELSE IF IsSpace(Head(s)) THEN strip(Tail(s))
  ELSE IF IsSpace(s[Len(s)]) THEN strip(SubSeq(s, 1, Len(s) - 1))
  ELSE s

-----------------------------------------------------------------------------
(* Python values as the protocol server handles them: what json.loads hands
   to handle_request and what handle_request builds *)

\* dict.get(key, default): the latest member decoded under the key
dict_get(d, key, default) ==
  LET hits == {i \in 1..Len(d.items) : d.items[i].key = key}
  IN IF hits = {} THEN default
     ELSE d.items[CHOOSE i \in hits : \A j \in hits : j <= i].val

\* the truth value of a Python object
bool(v) ==
  CASE v.t = "null" -> FALSE
    [] v.t = "bool" -> v.b
    [] v.t = "num" -> v.n # 0
    [] v.t = "str" -> v.s # <<>>
    [] v.t \in {"arr", "obj"} -> v.items # <<>>

\* type(v).__name__
type_name(v) ==
  CASE v.t = "null" -> <<"N", "o", "n", "e", "T", "y", "p", "e">>
    [] v.t = "bool" -> <<"b", "o", "o", "l">>
    [] v.t = "num" -> <<"i", "n", "t">>
    [] v.t = "str" -> <<"s", "t", "r">>
    [] v.t = "arr" -> <<"l", "i", "s", "t">>
    [] v.t = "obj" -> <<"d", "i", "c", "t">>

\* repr(v); a string is quoted with single quotes (no text drawn holds one)
RECURSIVE repr(_)
RECURSIVE ReprItems(_, _)
repr(v) ==
  CASE v.t = "null" -> <<"N", "o", "n", "e">>
    [] v.t = "bool" -> IF v.b THEN <<"T", "r", "u", "e">> ELSE <<"F", "a",
        "l", "s", "e">>
    [] v.t = "num" -> IntChars(v.n)
    [] v.t = "str" -> <<"'">> \o v.s \o <<"'">>
    [] v.t = "arr" -> <<"[">> \o ReprItems(v.items, FALSE) \o <<"]">>
    [] v.t = "obj" -> <<"{">> \o ReprItems(v.items, TRUE) \o <<"}">>

ReprItems(items, members) ==
  IF items = <<>> THEN <<>>
  ELSE LET x == Head(items)
           one == IF members
                    THEN repr(JStr(x.key)) \o <<":", " ">> \o repr(x.val)
                    ELSE repr(x)
       IN one \o (IF Len(items) > 1 THEN <<",", " ">> ELSE <<>>)
              \o ReprItems(Tail(items), members)

\* str(v), also what an f-string writes for v
str(v) == IF v.t = "str" THEN v.s ELSE repr(v)

IsStr(v, s) == v.t = "str" /\ v.s = s

\* 'X' object has no attribute 'name'
AttributeError(v, name) ==
  <<"'">> \o type_name(v) \o <<"'", " ", "o", "b", "j", "e", "c", "t", " ",
      "h", "a", "s", " ", "n", "o", " ", "a", "t", "t", "r", "i", "b", "u",
      "t", "e", " ", "'">> \o name \o <<"'">>

-----------------------------------------------------------------------------
(* MCPManager.call_tool and MCPServer.handle_request *)

\* -32603, the code of every error reply
INTERNAL_ERROR == 0 - 32603

\* what a call does: return a value (None or Some(v)) or raise an exception
\* with a message
Returned(response) ==
  [raised |-> FALSE, response |-> response, message |-> <<>>]
Raised(message) == [raised |-> TRUE, response |-> None, message |-> message]

\* f"review_{int(time.time())}_{id(self)}" as the text a client sends
SessionIdText(sid) ==
  <<"r", "e", "v", "i", "e", "w",
      "_">> \o NatChars(sid[2]) \o <<"_">> \o <<"o", "r", "c", "h", "e", "s",
      "t", "r", "a", "t", "o", "r">>

\* the result of ReviewOrchestrator.check_consensus as a Python dict
check_consensus_result(session_id, store) ==
  IF \E sid \in DOMAIN store : SessionIdText(sid) = session_id
    THEN LET sid == CHOOSE x \in DOMAIN store : SessionIdText(x) = session_id
             r == Session_check_consensus(store[sid])
         IN JObj(<< Member(<<"r", "o", "u", "n", "d">>, JNum(r.round)),
                    Member(<<"s", "u", "b", "m", "i", "t", "t", "e", "d">>,
                        JNum(r.submitted)),
                    Member(<<"t", "o", "t", "a", "l", "_", "a", "i", "s">>,
                        JNum(r.total_ais)),
                    Member(<<"a", "l", "l", "_", "s", "u", "b", "m", "i",
                        "t", "t", "e", "d">>, JBool(r.all_submitted)),
                    Member(<<"c", "o", "n", "s", "e", "n", "s", "u", "s",
                        "_", "r", "e", "a", "c", "h", "e", "d">>,
                        JBool(r.consensus_reached)) >>)
    ELSE JObj(<< Member(<<"e", "r", "r", "o", "r">>, JStr(<<"S", "e", "s",
        "s", "i", "o", "n", " ", "n", "o", "t", " ", "f", "o", "u", "n",
        "d">>)) >>)

\* the servers of the manager, and the orchestrator operation that the lines
\* of SpecServer call with arguments
Servers == {<<"r", "e", "v", "i", "e", "w">>}
DispatchedTools == {<<"c", "h", "e", "c", "k", "_", "c", "o", "n", "s", "e",
    "n", "s", "u", "s">>}

\* ReviewOrchestrator.get_available_tools: the names of the tools, in the
\* order of the list (descriptions, parameters and examples are left out)
get_available_tools ==
  << <<"r", "e", "v", "i", "e", "w", "_", "i", "t", "e", "r", "a", "t", "i",
      "v", "e", "_", "c", "o", "n", "s", "e", "n", "s", "u", "s">>, <<"c",
      "r", "e", "a", "t", "e", "_", "r", "e", "v", "i", "e", "w", "_", "s",
      "e", "s", "s", "i", "o", "n">>, <<"s", "u", "b", "m", "i", "t", "_",
      "r", "e", "v", "i", "e", "w">>,
     <<"g", "e", "t", "_", "o", "t", "h", "e", "r", "_", "r", "e", "v", "i",
         "e", "w", "s">>, <<"c", "h", "e", "c", "k", "_", "c", "o", "n", "s",
         "e", "n", "s", "u", "s">>, <<"a", "d", "v", "a", "n", "c", "e", "_",
         "r", "o", "u", "n", "d">>,
     <<"g", "e", "t", "_", "s", "e", "s", "s", "i", "o", "n", "_", "i", "n",
         "f", "o">>, <<"r", "e", "p", "o", "r", "t", "_", "p", "r", "o", "g",
         "r", "e", "s", "s">>, <<"g", "e", "t", "_", "p", "r", "o", "g", "r",
         "e", "s", "s">> >>

\* the methods of ReviewOrchestrator and the attributes that __init__ sets:
\* the names for which hasattr(server, tool_name) is true (the attributes
\* every Python object has are left out)
OrchestratorMethods ==
  { <<"c", "r", "e", "a", "t", "e", "_", "r", "e", "v", "i", "e", "w", "_",
      "s", "e", "s", "s", "i", "o", "n">>, <<"g", "e", "t", "_", "s", "e",
      "s", "s", "i", "o", "n">>, <<"s", "u", "b", "m", "i", "t", "_", "r",
      "e", "v", "i", "e", "w">>,
    <<"g", "e", "t", "_", "o", "t", "h", "e", "r", "_", "r", "e", "v", "i",
        "e", "w", "s">>, <<"c", "h", "e", "c", "k", "_", "c", "o", "n", "s",
        "e", "n", "s", "u", "s">>, <<"a", "d", "v", "a", "n", "c", "e", "_",
        "r", "o", "u", "n", "d">>,
    <<"f", "i", "n", "a", "l", "i", "z", "e", "_", "r", "e", "v", "i", "e",
        "w">>, <<"g", "e", "t", "_", "s", "e", "s", "s", "i", "o", "n", "_",
        "i", "n", "f", "o">>, <<"r", "e", "p", "o", "r", "t", "_", "p", "r",
        "o", "g", "r", "e", "s", "s">>,
    <<"g", "e", "t", "_", "p", "r", "o", "g", "r", "e", "s", "s">>, <<"_",
        "c", "h", "e", "c", "k", "_", "r", "o", "u", "n", "d", "_", "c", "o",
        "n", "s", "e", "n", "s", "u", "s">>,
    <<"_", "g", "e", "n", "e", "r", "a", "t", "e", "_", "i", "m", "p", "r",
        "o", "v", "e", "m", "e", "n", "t", "_", "p", "r", "o", "m", "p",
        "t">>, <<"_", "t", "r", "i", "g", "g", "e", "r", "_", "p", "e", "e",
        "r", "_", "r", "e", "v", "i", "e", "w", "s">>,
    <<"_", "s", "a", "v", "e", "_", "s", "e", "s", "s", "i", "o", "n">>,
        <<"r", "e", "v", "i", "e", "w", "_", "i", "t", "e", "r", "a", "t",
        "i", "v", "e", "_", "c", "o", "n", "s", "e", "n", "s", "u", "s">>,
        <<"g", "e", "t", "_", "a", "v", "a", "i", "l", "a", "b", "l", "e",
        "_", "t", "o", "o", "l", "s">> }
OrchestratorAttributes == OrchestratorMethods \cup {<<"s", "e", "s", "s",
    "i", "o", "n", "s">>, <<"r", "e", "v", "i", "e", "w", "s", "_", "d", "i",
    "r">>}

\* the parameters without a default value of each method
required_parameters(tool_name) ==
  CASE tool_name \in {<<"r", "e", "v", "i", "e", "w", "_", "i", "t", "e",
      "r", "a", "t", "i", "v", "e", "_", "c", "o", "n", "s", "e", "n", "s",
      "u", "s">>, <<"c", "r", "e", "a", "t", "e", "_", "r", "e", "v", "i",
      "e", "w", "_", "s", "e", "s", "s", "i", "o", "n">>}
         -> << <<"b", "a", "s", "e">> >>
    [] tool_name \in {<<"s", "u", "b", "m", "i", "t", "_", "r", "e", "v",
        "i", "e", "w">>}
         -> << <<"s", "e", "s", "s", "i", "o", "n", "_", "i", "d">>, <<"a",
             "i", "_", "n", "a", "m", "e">>, <<"r", "e", "v", "i", "e",
             "w">> >>
    [] tool_name \in {<<"r", "e", "p", "o", "r", "t", "_", "p", "r", "o",
        "g", "r", "e", "s", "s">>}
         -> << <<"s", "e", "s", "s", "i", "o", "n", "_", "i", "d">>, <<"a",
             "i", "_", "n", "a", "m", "e">>, <<"m", "e", "s", "s", "a", "g",
             "e">> >>
    [] tool_name \in {<<"g", "e", "t", "_", "o", "t", "h", "e", "r", "_",
        "r", "e", "v", "i", "e", "w", "s">>}
         -> << <<"s", "e", "s", "s", "i", "o", "n", "_", "i", "d">>, <<"a",
             "i", "_", "n", "a", "m", "e">> >>
    [] tool_name \in {<<"f", "i", "n", "a", "l", "i", "z", "e", "_", "r",
        "e", "v", "i", "e", "w">>}
         -> << <<"s", "e", "s", "s", "i", "o", "n", "_", "i", "d">>, <<"f",
             "i", "n", "a", "l", "_", "r", "e", "v", "i", "e", "w">> >>
    [] tool_name \in {<<"_", "g", "e", "n", "e", "r", "a", "t", "e", "_",
        "i", "m", "p", "r", "o", "v", "e", "m", "e", "n", "t", "_", "p", "r",
        "o", "m", "p", "t">>}
         -> << <<"s", "e", "s", "s", "i", "o", "n">>, <<"c", "u", "r", "r",
             "e", "n", "t", "_", "r", "e", "v", "i", "e", "w">>, <<"p", "e",
             "e", "r", "_", "f", "e", "e", "d", "b", "a", "c", "k", "s">> >>
    [] tool_name \in {<<"_", "c", "h", "e", "c", "k", "_", "r", "o", "u",
        "n", "d", "_", "c", "o", "n", "s", "e", "n", "s", "u", "s">>, <<"_",
        "t", "r", "i", "g", "g", "e", "r", "_", "p", "e", "e", "r", "_", "r",
        "e", "v", "i", "e", "w", "s">>,
                      <<"_", "s", "a", "v", "e", "_", "s", "e", "s", "s",
                          "i", "o", "n">>}
         -> << <<"s", "e", "s", "s", "i", "o", "n">> >>
    [] tool_name \in {<<"g", "e", "t", "_", "a", "v", "a", "i", "l", "a",
        "b", "l", "e", "_", "t", "o", "o", "l", "s">>}
         -> << >>
    [] OTHER -> << <<"s", "e", "s", "s", "i", "o", "n", "_", "i", "d">> >>

\* the names between quotes as Python lists them in a TypeError: 'a', then
\* 'a' and 'b', then 'a', 'b', and 'c'
RECURSIVE quoted_names(_)
quoted_names(names) ==
  IF Len(names) = 1 THEN <<"'">> \o names[1] \o <<"'">>
  ELSE IF Len(names) = 2
    THEN <<"'">> \o names[1] \o <<"'", " ", "a", "n", "d", " ",
        "'">> \o names[2] \o <<"'">>
  ELSE IF Len(names) = 3
    THEN <<"'">> \o names[1] \o <<"'", ",", " ", "'">> \o names[2] \o <<"'",
        ",", " ", "a", "n", "d", " ", "'">> \o names[3] \o <<"'">>
  ELSE <<"'">> \o names[1] \o <<"'", ",", " ">> \o quoted_names(Tail(names))

\* the TypeError of a method called without any of its required parameters
missing_arguments(tool_name) ==
  <<"R", "e", "v", "i", "e", "w", "O", "r", "c", "h", "e", "s", "t", "r",
      "a", "t", "o", "r", ".">> \o tool_name \o <<"(", ")", " ", "m", "i",
      "s", "s", "i", "n", "g", " ">>
    \o NatChars(Len(required_parameters(tool_name)))
    \o <<" ", "r", "e", "q", "u", "i", "r", "e", "d", " ", "p", "o", "s",
        "i", "t", "i", "o", "n", "a", "l", " ", "a", "r", "g", "u", "m", "e",
        "n", "t">>
    \o (IF Len(required_parameters(tool_name)) = 1 THEN <<>> ELSE <<"s">>)
    \o <<":", " ">> \o quoted_names(required_parameters(tool_name))

\* MCPManager.call_tool(server_name, tool_name, **kwargs). Of the operations
\* other than check_consensus only the call without arguments is modelled, as
\* the lines drawn make it, and the call of an attribute that is no method
call_tool(server_name, tool_name, kwargs, store) ==
  IF server_name \notin Servers
    THEN Raised(<<"U", "n", "k", "n", "o", "w", "n", " ", "M", "C", "P", " ",
        "s", "e", "r", "v", "e", "r", ":", " ">> \o server_name)
  ELSE IF tool_name \notin OrchestratorAttributes
    THEN Raised(<<"U", "n", "k", "n", "o", "w", "n", " ", "t", "o", "o", "l",
        ":", " ">> \o tool_name \o <<" ", "i", "n", " ">> \o server_name)
  ELSE IF tool_name \notin DispatchedTools
    THEN CASE tool_name = <<"s", "e", "s", "s", "i", "o", "n", "s">>
                -> Raised(<<"'", "d", "i", "c", "t", "'", " ", "o", "b", "j",
                    "e", "c", "t", " ", "i", "s", " ", "n", "o", "t", " ",
                    "c", "a", "l", "l", "a", "b", "l", "e">>)
           [] tool_name = <<"r", "e", "v", "i", "e", "w", "s", "_", "d", "i",
               "r">>
                -> Raised(<<"'", "P", "o", "s", "i", "x", "P", "a", "t", "h",
                    "'", " ", "o", "b", "j", "e", "c", "t", " ", "i", "s",
                    " ", "n", "o", "t", " ", "c", "a", "l", "l", "a", "b",
                    "l", "e">>)
           [] /\ tool_name \in OrchestratorMethods
              /\ kwargs.items = <<>>
              /\ required_parameters(tool_name) # <<>>
                -> Raised(missing_arguments(tool_name))
  ELSE \* method(**kwargs) with method = check_consensus(self, session_id)
    LET keys == {kwargs.items[i].key : i \in 1..Len(kwargs.items)}
    IN IF keys \ {<<"s", "e", "s", "s", "i", "o", "n", "_", "i", "d">>} # {}
         THEN Raised(<<"R", "e", "v", "i", "e", "w", "O", "r", "c", "h", "e",
             "s", "t", "r", "a", "t", "o", "r", ".", "c", "h", "e", "c", "k",
             "_", "c", "o", "n", "s", "e", "n", "s", "u", "s", "(", ")", " ",
             "g", "o", "t", " ", "a", "n", " ", "u", "n", "e", "x", "p", "e",
             "c", "t", "e", "d", " ", "k", "e", "y", "w", "o", "r", "d", " ",
             "a", "r", "g", "u", "m", "e", "n", "t">>)
       ELSE IF keys = {}
         THEN Raised(<<"R", "e", "v", "i", "e", "w", "O", "r", "c", "h", "e",
             "s", "t", "r", "a", "t", "o", "r", ".", "c", "h", "e", "c", "k",
             "_", "c", "o", "n", "s", "e", "n", "s", "u", "s", "(", ")", " ",
             "m", "i", "s", "s", "i", "n", "g", " ", "1", " ", "r", "e", "q",
             "u", "i", "r", "e", "d", " ", "p", "o", "s", "i", "t", "i", "o",
             "n", "a", "l", " ", "a", "r", "g", "u", "m", "e", "n", "t", ":",
             " ", "'", "s", "e", "s", "s", "i", "o", "n", "_", "i", "d",
             "'">>)
       ELSE LET session_id == dict_get(kwargs, <<"s", "e", "s", "s", "i",
           "o", "n", "_", "i", "d">>, JNull)
            IN Returned(Some(check_consensus_result(str(session_id), store)))

\* MCPServer._error_response
error_response(request_id, message) ==
  JObj(<< Member(<<"j", "s", "o", "n", "r", "p", "c">>, JStr(<<"2", ".",
      "0">>)),
          Member(<<"i", "d">>, request_id),
          Member(<<"e", "r", "r", "o", "r">>, JObj(<< Member(<<"c", "o", "d",
              "e">>, JNum(INTERNAL_ERROR)),
                                  Member(<<"m", "e", "s", "s", "a", "g",
                                      "e">>, JStr(message)) >>)) >>)

\* {"jsonrpc": "2.0", "id": request_id, "result": result}
result_response(request_id, result) ==
  JObj(<< Member(<<"j", "s", "o", "n", "r", "p", "c">>, JStr(<<"2", ".",
      "0">>)),
          Member(<<"i", "d">>, request_id),
          Member(<<"r", "e", "s", "u", "l", "t">>, result) >>)

\* "_" in tool_name, for whatever was decoded under "name"
contains_underscore(tool_name) ==
  CASE tool_name.t = "str" ->
         Returned(Some(\E i \in 1..Len(tool_name.s) : tool_name.s[i] = "_"))
    [] tool_name.t = "arr" ->
         Returned(Some(\E i \in 1..Len(tool_name.items) :
                         IsStr(tool_name.items[i], <<"_">>)))
    [] tool_name.t = "obj" ->
         Returned(Some(\E i \in 1..Len(tool_name.items) :
                         tool_name.items[i].key = <<"_">>))
    [] OTHER ->
         Raised(<<"a", "r", "g", "u", "m", "e", "n", "t", " ", "o", "f", " ",
             "t", "y", "p", "e", " ", "'">> \o type_name(tool_name)
                  \o <<"'", " ", "i", "s", " ", "n", "o", "t", " ", "i", "t",
                      "e", "r", "a", "b", "l", "e">>)

\* tool_name.rsplit("_", 1): the split at the last "_"
split_at_last(s) ==
  LET k == CHOOSE i \in 1..Len(s) :
             s[i] = "_" /\ \A j \in (i + 1)..Len(s) : s[j] # "_"
  IN [server_name |-> SubSeq(s, 1, k - 1),
      method_name |-> SubSeq(s, k + 1, Len(s))]

\* tool_name.split("_", 1)
split_once(s) ==
  LET k == CHOOSE i \in 1..Len(s) :
             s[i] = "_" /\ \A j \in 1..(i - 1) : s[j] # "_"
  IN [server_name |-> SubSeq(s, 1, k - 1),
      method_name |-> SubSeq(s, k + 1, Len(s))]

\* the tools/call branch of handle_request
tools_call(params, request_id, store) ==
  IF params.t # "obj" THEN Raised(AttributeError(params, <<"g", "e", "t">>))
  ELSE
    LET tool_name == dict_get(params, <<"n", "a", "m", "e">>, JNull)
        arguments == dict_get(params, <<"a", "r", "g", "u", "m", "e", "n",
            "t", "s">>, JObj(<<>>))
        has == contains_underscore(tool_name)
    IN IF has.raised THEN has
       ELSE IF ~has.response[1]
         THEN Returned(Some(error_response(request_id,
                                           <<"I", "n", "v", "a", "l", "i",
                                               "d", " ", "t", "o", "o", "l",
                                               " ", "n", "a", "m", "e", " ",
                                               "f", "o", "r", "m", "a",
                                               "t">>)))
       ELSE IF tool_name.t # "str"
         THEN Raised(AttributeError(tool_name, <<"s", "p", "l", "i", "t">>))
       ELSE IF arguments.t # "obj"
         THEN Raised(<<"a", "r", "g", "u", "m", "e", "n", "t", " ", "a", "f",
             "t", "e", "r", " ", "*", "*", " ", "m", "u", "s", "t", " ", "b",
             "e", " ", "a", " ", "m", "a", "p", "p", "i", "n", "g", ",", " ",
             "n", "o", "t", " ">>
                       \o type_name(arguments))
       ELSE
         LET name == split_once(tool_name.s)
             result == call_tool(name.server_name, name.method_name,
                                 arguments, store)
         IN IF result.raised THEN result
            ELSE Returned(Some(result_response(request_id,
                   JObj(<< Member(<<"c", "o", "n", "t", "e", "n", "t">>,
                       JArr(<<
                     JObj(<< Member(<<"t", "y", "p", "e">>, JStr(<<"t", "e",
                         "x", "t">>)),
                             Member(<<"t", "e", "x", "t">>,
                                 JStr(str(result.response[1])))
                          >>) >>)) >>))))

\* uri.startswith("file://")
startswith(s, prefix) == HasPrefixAt(s, 1, prefix)

\* the resources/read branch of handle_request
resources_read(params, request_id, store) ==
  IF params.t # "obj" THEN Raised(AttributeError(params, <<"g", "e", "t">>))
  ELSE
    LET uri == dict_get(params, <<"u", "r", "i">>, JNull)
    IN IF ~bool(uri)
         THEN Returned(Some(error_response(request_id, <<"I", "n", "v", "a",
             "l", "i", "d", " ", "r", "e", "s", "o", "u", "r", "c", "e", " ",
             "U", "R", "I">>)))
       ELSE IF uri.t # "str" THEN Raised(AttributeError(uri, <<"s", "t", "a",
           "r", "t", "s", "w", "i", "t", "h">>))
       ELSE IF ~startswith(uri.s, <<"f", "i", "l", "e", ":", "/", "/">>)
         THEN Returned(Some(error_response(request_id, <<"I", "n", "v", "a",
             "l", "i", "d", " ", "r", "e", "s", "o", "u", "r", "c", "e", " ",
             "U", "R", "I">>)))
       ELSE
         LET path == SubSeq(uri.s, 8, Len(uri.s))
             content == call_tool(<<"f", "i", "l", "e", "s", "y", "s", "t",
                 "e", "m">>, <<"r", "e", "a", "d", "_", "f", "i", "l", "e">>,
                                  JObj(<< Member(<<"p", "a", "t", "h">>,
                                      JStr(path)) >>), store)
         IN IF content.raised
              THEN Returned(Some(error_response(request_id,
                     <<"F", "a", "i", "l", "e", "d", " ", "t", "o", " ", "r",
                         "e", "a", "d", " ", "r", "e", "s", "o", "u", "r",
                         "c", "e", ":", " ">> \o content.message)))
              ELSE Returned(Some(result_response(request_id,
                     JObj(<< Member(<<"c", "o", "n", "t", "e", "n", "t",
                         "s">>, JArr(<<
                       JObj(<< Member(<<"u", "r", "i">>, uri),
                               Member(<<"m", "i", "m", "e", "T", "y", "p",
                                   "e">>, JStr(<<"t", "e", "x", "t", "/",
                                   "p", "l", "a", "i", "n">>)),
                               Member(<<"t", "e", "x", "t">>,
                                   content.response[1]) >>)
                       >>)) >>))))

\* the tools of tools/list: f"{server_name}_{tool['name']}" for each tool the
\* manager lists (descriptions and input schemas are left out)
tools_list ==
  JArr([ i \in 1..Len(get_available_tools) |->
           JObj(<< Member(<<"n", "a", "m", "e">>,
                          JStr(<<"r", "e", "v", "i", "e", "w", "_">>
                                 \o get_available_tools[i])) >>) ])

\* the body of the try block of handle_request
handle_request_body(method, params, request_id, store) ==
  IF IsStr(method, <<"t", "o", "o", "l", "s", "/", "l", "i", "s", "t">>)
    THEN Returned(Some(result_response(request_id,
                         JObj(<< Member(<<"t", "o", "o", "l", "s">>,
                             tools_list) >>))))
  ELSE IF IsStr(method, <<"t", "o", "o", "l", "s", "/", "c", "a", "l", "l">>)
    THEN tools_call(params, request_id, store)
  ELSE IF IsStr(method, <<"i", "n", "i", "t", "i", "a", "l", "i", "z", "e">>)
    THEN Returned(Some(result_response(request_id,
           JObj(<< Member(<<"p", "r", "o", "t", "o", "c", "o", "l", "V", "e",
               "r", "s", "i", "o", "n">>, JStr(<<"2", "0", "2", "4", "-",
               "1", "1", "-", "0", "5">>)),
                   Member(<<"c", "a", "p", "a", "b", "i", "l", "i", "t", "i",
                       "e", "s">>,
                          JObj(<< Member(<<"t", "o", "o", "l", "s">>,
                              JObj(<<>>)),
                                  Member(<<"r", "e", "s", "o", "u", "r", "c",
                                      "e", "s">>, JObj(<<>>)) >>)),
                   Member(<<"s", "e", "r", "v", "e", "r", "I", "n", "f",
                       "o">>,
                          JObj(<< Member(<<"n", "a", "m", "e">>, JStr(<<"c",
                              "o", "n", "s", "e", "n", "s", "u", "s", "-",
                              "c", "o", "d", "e", "-", "r", "e", "v", "i",
                              "e", "w">>)),
                                  Member(<<"v", "e", "r", "s", "i", "o",
                                      "n">>, JStr(<<"2", ".", "0", ".",
                                      "0">>)) >>)) >>))))
  ELSE IF IsStr(method, <<"r", "e", "s", "o", "u", "r", "c", "e", "s", "/",
      "l", "i", "s", "t">>)
    THEN Returned(Some(result_response(request_id,
           JObj(<< Member(<<"r", "e", "s", "o", "u", "r", "c", "e", "s">>,
               JArr(<<
             JObj(<< Member(<<"u", "r", "i">>, JStr(<<"f", "i", "l", "e",
                 ":", "/", "/", "/">>)),
                     Member(<<"n", "a", "m", "e">>, JStr(<<"P", "r", "o",
                         "j", "e", "c", "t", " ", "F", "i", "l", "e", "s">>)),
                     Member(<<"m", "i", "m", "e", "T", "y", "p", "e">>,
                         JStr(<<"t", "e", "x", "t", "/", "p", "l", "a", "i",
                         "n">>)) >>) >>)) >>))))
  ELSE IF IsStr(method, <<"r", "e", "s", "o", "u", "r", "c", "e", "s", "/",
      "r", "e", "a", "d">>)
    THEN resources_read(params, request_id, store)
  ELSE IF IsStr(method, <<"n", "o", "t", "i", "f", "i", "c", "a", "t", "i",
      "o", "n", "s", "/", "i", "n", "i", "t", "i", "a", "l", "i", "z", "e",
      "d">>)
    THEN Returned(None)
  ELSE Returned(Some(error_response(request_id,
                                    <<"U", "n", "k", "n", "o", "w", "n", " ",
                                        "m", "e", "t", "h", "o", "d", ":",
                                        " ">> \o str(method))))

\* MCPServer.handle_request: the reads of the request and the log line come
\* before the try block, so what they raise leaves the handler; what the try
\* block raises becomes an error reply
handle_request(request, store) ==
  IF request.t # "obj" THEN Raised(AttributeError(request, <<"g", "e", "t">>))
  ELSE
    LET method == dict_get(request, <<"m", "e", "t", "h", "o", "d">>, JNull)
        params == dict_get(request, <<"p", "a", "r", "a", "m", "s">>,
            JObj(<<>>))
        request_id == dict_get(request, <<"i", "d">>, JNull)
    IN IF bool(params) /\ params.t # "obj"
         THEN Raised(AttributeError(params, <<"k", "e", "y", "s">>))
         ELSE LET out == handle_request_body(method, params, request_id,
             store)
              IN IF out.raised
                   THEN Returned(Some(error_response(request_id,
                       out.message)))
                   ELSE out

-----------------------------------------------------------------------------
(* MCPServer.run and the input lines *)

\* a request line: {"jsonrpc": "2.0", "id": id, "method": method, "params":
\* params}, the id and the params being left out when None
Request(id, method, params) ==
  JObj(<< Member(<<"j", "s", "o", "n", "r", "p", "c">>, JStr(<<"2", ".",
      "0">>)) >>
       \o (IF id = None THEN <<>> ELSE << Member(<<"i", "d">>, id[1]) >>)
       \o << Member(<<"m", "e", "t", "h", "o", "d">>, JStr(method)) >>
       \o (IF params = None THEN <<>> ELSE << Member(<<"p", "a", "r", "a",
           "m", "s">>, params[1]) >>))

\* the params of a tools/call request
ToolParams(name, arguments) ==
  JObj(<< Member(<<"n", "a", "m", "e">>, JStr(name)), Member(<<"a", "r", "g",
      "u", "m", "e", "n", "t", "s">>, arguments) >>)

\* the request ids a client sends; None makes the request a notification
IdChoices == {None, Some(JNum(1)), Some(JNum(2))}

\* method and params of the requests drawn: the known methods, an unknown
\* method, tool names without separator, with an unknown namespace, with an
\* unknown operation, an operation that raises (its argument is missing), an
\* operation that returns, and params that are a list
RequestShapes ==
  { <<<<"i", "n", "i", "t", "i", "a", "l", "i", "z", "e">>, None>>,
    <<<<"t", "o", "o", "l", "s", "/", "l", "i", "s", "t">>, None>>,
    <<<<"n", "o", "t", "i", "f", "i", "c", "a", "t", "i", "o", "n", "s", "/",
        "i", "n", "i", "t", "i", "a", "l", "i", "z", "e", "d">>, None>>,
    <<<<"p", "i", "n", "g">>, None>>,
    <<<<"r", "e", "s", "o", "u", "r", "c", "e", "s", "/", "r", "e", "a",
        "d">>, Some(JObj(<< Member(<<"u", "r", "i">>, JStr(<<"f", "i", "l",
        "e", ":", "/", "/", "/", "a">>)) >>))>>,
    <<<<"t", "o", "o", "l", "s", "/", "c", "a", "l", "l">>,
        Some(ToolParams(<<"r", "e", "v", "i", "e", "w">>, JObj(<<>>)))>>,
    <<<<"t", "o", "o", "l", "s", "/", "c", "a", "l", "l">>,
        Some(ToolParams(<<"g", "i", "t", "_", "s", "t", "a", "t", "u", "s">>,
        JObj(<<>>)))>>,
    <<<<"t", "o", "o", "l", "s", "/", "c", "a", "l", "l">>,
        Some(ToolParams(<<"r", "e", "v", "i", "e", "w", "_", "n", "o", "p",
        "e">>, JObj(<<>>)))>>,
    <<<<"t", "o", "o", "l", "s", "/", "c", "a", "l", "l">>,
        Some(ToolParams(<<"r", "e", "v", "i", "e", "w", "_", "c", "h", "e",
        "c", "k", "_", "c", "o", "n", "s", "e", "n", "s", "u", "s">>,
        JObj(<<>>)))>>,
    <<<<"t", "o", "o", "l", "s", "/", "c", "a", "l", "l">>,
        Some(ToolParams(<<"r", "e", "v", "i", "e", "w", "_", "c", "h", "e",
        "c", "k", "_", "c", "o", "n", "s", "e", "n", "s", "u", "s">>,
        JObj(<< Member(<<"s", "e", "s", "s", "i", "o", "n", "_", "i", "d">>,
            JStr(<<"r", "e", "v", "i", "e", "w", "_", "0", "_", "o", "r",
            "c", "h", "e", "s", "t", "r", "a", "t", "o", "r">>)) >>)))>>,
    <<<<"i", "n", "i", "t", "i", "a", "l", "i", "z", "e">>,
        Some(JArr(<< JNum(1) >>))>> }

Requests ==
  {Request(id, shape[1], shape[2]) : id \in IdChoices,
      shape \in RequestShapes}

\* lines that hold a request object
RequestLines == {json_dumps(r) : r \in Requests}

\* lines whose JSON value is not an object
NonObjectLines == {json_dumps(JArr(<< JNum(1) >>)), json_dumps(JNum(7))}

\* how much of a request line a malformed line keeps
CutAt == 30

\* lines that are not JSON: a request line cut short, with and without an id
MalformedLines ==
  {SubSeq(json_dumps(Request(id, <<"t", "o", "o", "l", "s", "/", "l", "i",
      "s", "t">>, None)), 1, CutAt) :
     id \in IdChoices}

\* lines that are blank once stripped
BlankLines == {<<>>, <<" ">>}

Lines == RequestLines \cup NonObjectLines \cup MalformedLines \cup BlankLines

\* number of lines the client sends
MaxLines == 2

\* one iteration of the loop of MCPServer.run: strip the line; skip it when
\* blank; decode it, a JSONDecodeError being logged and the loop going on;
\* handle the request and print the response unless it is None.  Any other
\* exception leaves the loop and ends run.  No line drawn names an existing
\* session, so the orchestrator is left as it is.
ReadLine(raw) ==
  /\ alive
  /\ linesRead < MaxLines
  /\ linesRead' = linesRead + 1
  /\ LET line == strip(raw)
         decoded == json_loads(line)
         out == handle_request(decoded.val, sessions)
     IN IF line = <<>>
          THEN /\ lastLine' = LineRecord(raw, "blank", None)
               /\ UNCHANGED <<stdout, alive>>
        ELSE IF ~decoded.ok
          THEN /\ lastLine' = LineRecord(raw, "decode_error", None)
               /\ UNCHANGED <<stdout, alive>>
        ELSE IF out.raised
          THEN /\ lastLine' = LineRecord(raw, "escaped", None)
               /\ alive' = FALSE
               /\ UNCHANGED stdout
        ELSE IF out.response # None /\ bool(out.response[1])
          THEN LET response_str == json_dumps(out.response[1])
               IN /\ stdout' = Append(stdout, response_str)
                  /\ lastLine' = LineRecord(raw, "answered",
                      Some(response_str))
                  /\ UNCHANGED alive
        ELSE /\ lastLine' = LineRecord(raw, "silent", None)
             /\ UNCHANGED <<stdout, alive>>
  /\ UNCHANGED <<orchestratorVars, outsideServer>>

\* SpecServer: the protocol server reading lines from its client
NextServer == \E raw \in Lines : ReadLine(raw)

SpecServer == Init /\ [][NextServer]_vars

-----------------------------------------------------------------------------
(* The protocol server: claims C11 to C14 *)

\* a step of the run loop: one more line has been read
ReadStep == linesRead' = linesRead + 1

\* the JSON value of an input line, when it has one
Decoded(raw) == json_loads(strip(raw))
IsRequestObject(raw) == Decoded(raw).ok /\ Decoded(raw).val.t = "obj"

\* the line is a request object with an id, and that id
CarriesId(raw) ==
  /\ IsRequestObject(raw)
  /\ dict_get(Decoded(raw).val, <<"i", "d">>, JNull).t # "null"
RequestId(raw) == dict_get(Decoded(raw).val, <<"i", "d">>, JNull)

\* the step printed exactly one line
PrintedOne == Len(stdout') = Len(stdout) + 1 /\ stdout = SubSeq(stdout', 1,
    Len(stdout))
Printed == json_loads(stdout'[Len(stdout')]).val

\* a response object is an error reply: its "error" member holds the code
\* -32603 and a message text
IsErrorReply(response) ==
  LET error == dict_get(response, <<"e", "r", "r", "o", "r">>, JNull)
  IN /\ error.t = "obj"
     /\ dict_get(error, <<"c", "o", "d", "e">>, JNull).t = "num"
     /\ dict_get(error, <<"c", "o", "d", "e">>, JNull).n = INTERNAL_ERROR
     /\ dict_get(error, <<"m", "e", "s", "s", "a", "g", "e">>,
         JNull).t = "str"
     /\ dict_get(error, <<"m", "e", "s", "s", "a", "g", "e">>, JNull).s # <<>>

SameValue(v, w) == json_dumps(v) = json_dumps(w)

\* C11: for every input line that is a JSON request object carrying an id,
\* whatever its method, the server writes exactly one response line, and the
\* id in that response equals the id of the request.
C11_OneResponsePerRequest ==
  [][ (ReadStep /\ CarriesId(lastLine'.line))
        => (PrintedOne
            /\ SameValue(dict_get(Printed, <<"i", "d">>, JNull),
                         RequestId(lastLine'.line))) ]_vars

\* C12: for every input line that is a JSON request object without an id (a
\* notification), whatever its method, the server writes no response line.
C12_NoResponseToNotification ==
  [][ (ReadStep /\ IsRequestObject(lastLine'.line)
         /\ ~CarriesId(lastLine'.line))
        => stdout' = stdout ]_vars

KnownMethods ==
  {<<"t", "o", "o", "l", "s", "/", "l", "i", "s", "t">>, <<"t", "o", "o",
      "l", "s", "/", "c", "a", "l", "l">>, <<"i", "n", "i", "t", "i", "a",
      "l", "i", "z", "e">>, <<"r", "e", "s", "o", "u", "r", "c", "e", "s",
      "/", "l", "i", "s", "t">>,
   <<"r", "e", "s", "o", "u", "r", "c", "e", "s", "/", "r", "e", "a", "d">>,
       <<"n", "o", "t", "i", "f", "i", "c", "a", "t", "i", "o", "n", "s",
       "/", "i", "n", "i", "t", "i", "a", "l", "i", "z", "e", "d">>}

\* the lines that the server is to answer with an error reply: a line whose
\* JSON value is not an object, an unknown method, and a tools/call whose
\* tool name has no "_" or whose dispatch raises (unknown namespace, unknown
\* operation, exception of the operation)
IsToolName(v) == v.t = "str" /\ \E i \in 1..Len(v.s) : v.s[i] = "_"

DispatchRaises(params, store) ==
  LET tool_name == dict_get(params, <<"n", "a", "m", "e">>, JNull)
      name == split_once(tool_name.s)
  IN IsToolName(tool_name)
       => call_tool(name.server_name, name.method_name,
                    dict_get(params, <<"a", "r", "g", "u", "m", "e", "n",
                        "t", "s">>, JObj(<<>>)), store).raised

ExpectsErrorReply(raw, store) ==
  /\ Decoded(raw).ok
  /\ \/ Decoded(raw).val.t # "obj"
     \/ LET request == Decoded(raw).val
            method == dict_get(request, <<"m", "e", "t", "h", "o", "d">>,
                JNull)
            params == dict_get(request, <<"p", "a", "r", "a", "m", "s">>,
                JObj(<<>>))
        IN \/ method.t # "str"
           \/ method.s \notin KnownMethods
           \/ /\ method.s = <<"t", "o", "o", "l", "s", "/", "c", "a", "l",
               "l">>
              /\ params.t = "obj"
              /\ DispatchRaises(params, store)

\* C13: no input line stops the server loop or lets an exception escape: an
\* unknown method, a tool name without the "_" separator, an unknown namespace
\* or operation, an exception raised by the dispatched operation, and a line
\* whose JSON value is not an object are each converted to a structured error
\* reply with the fixed code -32603 carrying the message text, after which the
\* server goes on to process the following lines.
C13_ErrorsBecomeReplies ==
  [][ ReadStep
        => (/\ alive'
            /\ ExpectsErrorReply(lastLine'.line, sessions)
                 => (PrintedOne /\ IsErrorReply(Printed))) ]_vars

\* the line is not blank and is not parseable as JSON
IsMalformed(raw) == strip(raw) # <<>> /\ ~Decoded(raw).ok

\* the ids whose member text, "id": n, a malformed line still shows
IdsShown(raw) ==
  {id \in IdChoices \ {None} :
     IsSubstring(<<"\"", "i", "d", "\"", ":", " ">> \o json_dumps(id[1]),
         raw)}

\* C14: after receiving a line that is not parseable as JSON, the server keeps
\* running and answers every later valid request normally, and if the
\* malformed line carried a request id it emits one structured error reply for
\* that id and for no other id.
C14_MalformedLineAnswered ==
  [][ (ReadStep /\ IsMalformed(lastLine'.line))
        => (/\ alive'
            /\ IF IdsShown(lastLine'.line) = {}
                 THEN stdout' = stdout
                 ELSE /\ PrintedOne
                      /\ IsErrorReply(Printed)
                      /\ \E id \in IdsShown(lastLine'.line) :
                           SameValue(dict_get(Printed, <<"i", "d">>, JNull),
                               id[1])) ]_vars

-----------------------------------------------------------------------------
(* DataCurator: priorities, the sort and the walk within the token budget.
   A path is a sequence of characters; a diff is modelled by its length in
   characters, the only thing the curator reads from it. *)

security_keywords ==
  {<<"a", "u", "t", "h">>, <<"p", "a", "s", "s", "w", "o", "r", "d">>, <<"t",
      "o", "k", "e", "n">>, <<"s", "e", "c", "r", "e", "t">>, <<"c", "r",
      "y", "p", "t", "o">>, <<"s", "e", "c", "u", "r", "i", "t", "y">>,
      <<"p", "e", "r", "m", "i", "s", "s", "i", "o", "n">>}
database_keywords == {<<"d", "a", "t", "a", "b", "a", "s", "e">>, <<"d",
    "b">>, <<"m", "i", "g", "r", "a", "t", "i", "o", "n">>, <<"s", "c", "h",
    "e", "m", "a">>, <<"s", "q", "l">>}
api_keywords == {<<"a", "p", "i">>, <<"e", "n", "d", "p", "o", "i", "n",
    "t">>, <<"r", "o", "u", "t", "e">>, <<"c", "o", "n", "t", "r", "o", "l",
    "l", "e", "r">>}
core_keywords == {<<"c", "o", "r", "e">>, <<"m", "a", "i", "n">>, <<"p", "r",
    "o", "c", "e", "s", "s", "o", "r">>, <<"s", "e", "r", "v", "i", "c",
    "e">>, <<"b", "u", "s", "i", "n", "e", "s", "s">>}
config_keywords == {<<"c", "o", "n", "f", "i", "g">>, <<"s", "e", "t", "t",
    "i", "n", "g">>, <<".", "e", "n", "v">>, <<".", "y", "a", "m", "l">>,
    <<".", "j", "s", "o", "n">>}
doc_keywords == {<<".", "m", "d">>, <<".", "t", "x", "t">>, <<".", "r", "s",
    "t">>, <<"r", "e", "a", "d", "m", "e">>, <<"c", "h", "a", "n", "g", "e",
    "l", "o", "g">>, <<"l", "i", "c", "e", "n", "s", "e">>}

\* any(keyword in path_lower for keyword in keywords)
any_in(keywords, path_lower) == \E k \in keywords : IsSubstring(k, path_lower)

\* str.endswith
endswith(s, suffix) ==
  Len(suffix) <= Len(s) /\ SubSeq(s, Len(s) - Len(suffix) + 1,
      Len(s)) = suffix

\* the test-file rule of _calculate_priority
is_test_path(path_lower) ==
  \/ IsSubstring(<<"t", "e", "s", "t">>, path_lower)
  \/ endswith(path_lower, <<"_", "t", "e", "s", "t", ".", "p", "y">>)
  \/ endswith(path_lower, <<".", "t", "e", "s", "t", ".", "j", "s">>)

\* the threshold of the large-change rule
LargeChange == 100

\* _calculate_priority with the test-file rule moved ahead of the keyword rules
calculate_priority_test_first(file_path, insertions, deletions) ==
  LET path_lower == Lower(file_path)
      total_changes == insertions + deletions
  IN IF is_test_path(path_lower)
       THEN [priority |-> 4, reason |-> <<"Test file">>]
     ELSE IF any_in(security_keywords, path_lower)
       THEN [priority |-> 1, reason |-> <<"Security-sensitive">>]
     ELSE IF any_in(database_keywords, path_lower)
       THEN [priority |-> 1, reason |-> <<"Database-related">>]
     ELSE IF any_in(api_keywords, path_lower)
       THEN [priority |-> 1, reason |-> <<"API endpoint">>]
     ELSE IF any_in(core_keywords, path_lower)
       THEN [priority |-> 2, reason |-> <<"Core logic">>]
     ELSE IF total_changes > LargeChange
       THEN [priority |-> 2, reason |-> <<"Large change", total_changes>>]
     ELSE IF any_in(config_keywords, path_lower)
       THEN [priority |-> 3, reason |-> <<"Configuration">>]
     ELSE IF any_in(doc_keywords, path_lower)
       THEN [priority |-> 5, reason |-> <<"Documentation">>]
     ELSE [priority |-> 3, reason |-> <<"Standard file">>]

\* DataCurator._calculate_priority: (priority, reason)
calculate_priority(file_path, insertions, deletions) ==
  LET path_lower == Lower(file_path)
      total_changes == insertions + deletions
  IN IF any_in(security_keywords, path_lower)
       THEN [priority |-> 1, reason |-> <<"Security-sensitive">>]
     ELSE IF any_in(database_keywords, path_lower)
       THEN [priority |-> 1, reason |-> <<"Database-related">>]
     ELSE IF any_in(api_keywords, path_lower)
       THEN [priority |-> 1, reason |-> <<"API endpoint">>]
     ELSE IF any_in(core_keywords, path_lower)
       THEN [priority |-> 2, reason |-> <<"Core logic">>]
     ELSE IF total_changes > LargeChange
       THEN [priority |-> 2, reason |-> <<"Large change", total_changes>>]
     ELSE IF any_in(config_keywords, path_lower)
       THEN [priority |-> 3, reason |-> <<"Configuration">>]
     ELSE IF is_test_path(path_lower)
       THEN [priority |-> 4, reason |-> <<"Test file">>]
     ELSE IF any_in(doc_keywords, path_lower)
       THEN [priority |-> 5, reason |-> <<"Documentation">>]
     ELSE [priority |-> 3, reason |-> <<"Standard file">>]

\* FileChange(path, priority, reason, insertions, deletions), diff = None
FileChange(path, priority, reason, insertions, deletions) ==
  [ path |-> path, priority |-> priority, reason |-> reason,
    insertions |-> insertions, deletions |-> deletions, diff |-> None ]

\* the sort key of _prioritize_files: (priority, -insertions - deletions),
\* compared as Python compares tuples
key_le(x, y) ==
  \/ x.priority < y.priority
  \/ /\ x.priority = y.priority
     /\ 0 - x.insertions - x.deletions <= 0 - y.insertions - y.deletions

\* sorted(prioritized, key=...), a stable sort
RECURSIVE sorted_by_priority(_)
sorted_by_priority(files) ==
  IF files = <<>> THEN <<>>
  ELSE LET x == files[Len(files)]
           rest == sorted_by_priority(SubSeq(files, 1, Len(files) - 1))
       IN SelectSeq(rest, LAMBDA f : key_le(f, x))
          \o <<x>>
          \o SelectSeq(rest, LAMBDA f : ~key_le(f, x))

\* DataCurator._estimate_tokens: int(len(text) / 3.5)
estimate_tokens(length) == (2 * length) \div 7

\* the budget test of _select_within_budget that leaves out what is used
fits_alone(current_tokens, estimated_tokens, token_budget) ==
  estimated_tokens <= token_budget

\* the budget test of _select_within_budget
fits(current_tokens, estimated_tokens, token_budget) ==
  current_tokens + estimated_tokens <= token_budget

\* the skipped list that leaves out the files of priority 1
skip_lower_tiers(skipped, file_change) ==
  IF file_change.priority = 1 THEN skipped ELSE Append(skipped, file_change)

\* skipped.append(file_change)
skip(skipped, file_change) == Append(skipped, file_change)

\* len(f.diff or "")
diff_length(f) == IF f.diff = None THEN 0 ELSE f.diff[1]

\* sum(...) over a list of numbers
RECURSIVE sum(_)
sum(numbers) ==
  IF numbers = <<>> THEN 0 ELSE Head(numbers) + sum(Tail(numbers))

\* sum(self._estimate_tokens(f.diff or "") for f in files)
token_usage(files) ==
  sum([i \in 1..Len(files) |-> estimate_tokens(diff_length(files[i]))])

\* the dict curate_changes returns
curation_result(c) ==
  [ summary |->
      [ total_files |-> Len(c.all_files),
        curated_files |-> Len(c.curated),
        skipped_files |-> Len(c.skipped),
        insertions |->
          sum([i \in 1..Len(c.curated) |-> c.curated[i].insertions]),
        deletions |->
          sum([i \in 1..Len(c.curated) |-> c.curated[i].deletions]),
        token_usage |-> token_usage(c.curated) ],
    curated_files |-> c.curated,
    skipped_files |-> c.skipped,
    base_branch |-> BaseBranch,
    target_branch |-> TargetBranch ]

\* an exception leaves curate_changes
Fails(exception) ==
  curation' = [curation EXCEPT !.pc = "failed",
                               !.result = Some([raised |-> exception])]

\* DataCurator._get_all_changed_files: git diff --name-only; a non-zero exit
\* is raised as RuntimeError, the timeout is not caught
get_all_changed_files ==
  /\ curation.pc = "start"
  /\ CASE changeSource.names.kind = "error" -> Fails("RuntimeError")
       [] changeSource.names.kind = "timeout" -> Fails("TimeoutExpired")
       [] changeSource.names.kind = "ok" ->
            curation' = [curation EXCEPT !.pc = "prioritize",
                           !.all_files = changeSource.names.value]
  /\ UNCHANGED <<changeSource, outsideCurator>>

\* DataCurator._get_file_stats: git diff --numstat; a non-zero exit is caught
\* and (0, 0) returned, the timeout is not caught
get_file_stats(file_path) ==
  IF changeSource.numstat[file_path].kind = "ok"
    THEN changeSource.numstat[file_path].value
    ELSE <<0, 0>>

\* one iteration of the loop of _prioritize_files
prioritize_file ==
  /\ curation.pc = "prioritize"
  /\ Len(curation.prioritized) < Len(curation.all_files)
  /\ LET file_path == curation.all_files[Len(curation.prioritized) + 1]
         stats == get_file_stats(file_path)
         p == calculate_priority(file_path, stats[1], stats[2])
     IN IF changeSource.numstat[file_path].kind = "timeout"
          THEN Fails("TimeoutExpired")
          ELSE curation' =
                 [curation EXCEPT !.prioritized =
                    Append(@, FileChange(file_path, p.priority, p.reason,
                                         stats[1], stats[2]))]
  /\ UNCHANGED <<changeSource, outsideCurator>>

\* the end of _prioritize_files: the list is returned sorted
sort_prioritized ==
  /\ curation.pc = "prioritize"
  /\ Len(curation.prioritized) = Len(curation.all_files)
  /\ curation' = [curation EXCEPT !.pc = "select",
                    !.prioritized = sorted_by_priority(@)]
  /\ UNCHANGED <<changeSource, outsideCurator>>

\* DataCurator._get_file_diff: git diff; a non-zero exit is caught and ""
\* returned, the timeout is not caught
get_file_diff(file_path) ==
  IF changeSource.diff[file_path].kind = "ok"
    THEN changeSource.diff[file_path].value
    ELSE 0

\* one iteration of the loop of _select_within_budget
select_file ==
  /\ curation.pc = "select"
  /\ curation.walked < Len(curation.prioritized)
  /\ LET file_change == curation.prioritized[curation.walked + 1]
         diff == get_file_diff(file_change.path)
         estimated_tokens == estimate_tokens(diff)
     IN IF changeSource.diff[file_change.path].kind = "timeout"
          THEN Fails("TimeoutExpired")
        ELSE IF fits(curation.current_tokens, estimated_tokens,
                     curation.token_budget)
          THEN curation' =
                 [curation EXCEPT
                    !.walked = @ + 1,
                    !.curated =
                       Append(@, [file_change EXCEPT !.diff = Some(diff)]),
                    !.current_tokens = @ + estimated_tokens]
        ELSE curation' =
               [curation EXCEPT
                  !.walked = @ + 1,
                  !.skipped = skip(@, file_change),
                  !.warnings = IF file_change.priority = 1
                                 THEN Append(@, file_change.path) ELSE @]
  /\ UNCHANGED <<changeSource, outsideCurator>>

\* the end of curate_changes: the statistics and the returned dict
curate_changes_return ==
  /\ curation.pc = "select"
  /\ curation.walked = Len(curation.prioritized)
  /\ curation' = [curation EXCEPT !.pc = "done",
                    !.result = Some(curation_result(curation))]
  /\ UNCHANGED <<changeSource, outsideCurator>>

-----------------------------------------------------------------------------
(* The change sources and the budgets the curator is run on *)

\* number of changed files of a change source
MaxFiles == 3

Range(seq) == {seq[i] : i \in 1..Len(seq)}

\* the changed paths: two of the first tier and one of the last
CuratorPaths == {<<"s", "r", "c", "/", "a", "u", "t", "h", ".", "p", "y">>,
    <<"d", "b", "/", "s", "c", "h", "e", "m", "a", ".", "s", "q", "l">>,
    <<"R", "E", "A", "D", "M", "E", ".", "m", "d">>}

\* git diff --name-only lists every changed path once, in some order
ChangedLists ==
  UNION {{names \in [1..n -> CuratorPaths] :
            \A i, j \in 1..n : names[i] = names[j] => i = j} : n \in 0..MaxFiles}

\* git diff --numstat of a path: 2 insertions and 1 deletion, or a failure
StatOutcomes == {GitOk(<<2, 1>>), GitError, GitTimeout}

\* git diff of a path: a diff of 1050 characters (300 tokens), one of 2450
\* characters (700 tokens), or a failure
DiffOutcomes == {GitOk(1050), GitOk(2450), GitError, GitTimeout}

\* five files of the first tier, each with a diff of 300 tokens
ScenarioPaths == <<<<"a", "u", "t", "h", "1", ".", "p", "y">>, <<"a", "u",
    "t", "h", "2", ".", "p", "y">>, <<"a", "u", "t", "h", "3", ".", "p",
    "y">>, <<"a", "u", "t", "h", "4", ".", "p", "y">>, <<"a", "u", "t", "h",
    "5", ".", "p", "y">>>>
ScenarioSource ==
  [ names |-> GitOk(ScenarioPaths),
    numstat |-> [p \in Range(ScenarioPaths) |-> GitOk(<<2, 1>>)],
    diff |-> [p \in Range(ScenarioPaths) |-> GitOk(1050)] ]

\* the change sources that list the given paths: every outcome of the stats
\* and of the diff of each path
SourcesListing(names) ==
  {[names |-> GitOk(names), numstat |-> numstat, diff |-> diff] :
     numstat \in [Range(names) -> StatOutcomes],
     diff \in [Range(names) -> DiffOutcomes]}

\* the change sources whose list of changed paths cannot be had
FailingSources ==
  {[names |-> failure, numstat |-> <<>>, diff |-> <<>>] :
     failure \in {GitError, GitTimeout}}

\* DataCurator(token_budget=1000)
TokenBudgets == {1000}

\* SpecCurator: one curate_changes call on every change source
InitCurator ==
  /\ OrchestratorInit
  /\ ServerInit
  /\ \/ \E names \in ChangedLists : changeSource \in SourcesListing(names)
     \/ changeSource \in FailingSources
     \/ changeSource = ScenarioSource
  /\ curation \in {NewCuration(b) : b \in TokenBudgets}
  /\ CalculatorInit
  /\ CounterInit
  /\ ClientInit

NextCurator ==
  \/ get_all_changed_files
  \/ prioritize_file
  \/ sort_prioritized
  \/ select_file
  \/ curate_changes_return

SpecCurator == InitCurator /\ [][NextCurator]_vars

\* the paths _calculate_priority is applied to: one for each rule, and paths
\* that match two rules
PriorityPaths ==
  { <<"s", "r", "c", "/", "a", "u", "t", "h", ".", "p", "y">>, <<"t", "e",
      "s", "t", "s", "/", "t", "e", "s", "t", "_", "a", "u", "t", "h", ".",
      "p", "y">>, <<"d", "o", "c", "s", "/", "s", "e", "c", "u", "r", "i",
      "t", "y", ".", "m", "d">>, <<"d", "b", "/", "m", "o", "d", "e", "l",
      "s", ".", "p", "y">>,
    <<"d", "o", "c", "s", "/", "s", "c", "h", "e", "m", "a", ".", "m", "d">>,
        <<"s", "r", "c", "/", "a", "p", "i", ".", "p", "y">>, <<"s", "r",
        "c", "/", "c", "o", "r", "e", ".", "p", "y">>, <<"s", "r", "c", "/",
        "M", "a", "i", "n", ".", "p", "y">>,
    <<"s", "r", "c", "/", "a", "p", "p", ".", "p", "y">>, <<"a", "p", "p",
        ".", "y", "a", "m", "l">>, <<"t", "e", "s", "t", "s", "/", "t", "e",
        "s", "t", "_", "a", "p", "p", ".", "p", "y">>, <<"R", "E", "A", "D",
        "M", "E", ".", "m", "d">>, <<"M", "a", "k", "e", "f", "i", "l",
        "e">> }

\* the insertions and deletions of a path: none, 100 lines, more than 100
PriorityStats == {<<0, 0>>, <<50, 50>>, <<51, 50>>, <<0, 101>>}

\* SpecPriority: the priority of one changed path, for every path and every
\* count of changed lines
InitPriority ==
  /\ OrchestratorInit
  /\ ServerInit
  /\ \E path \in PriorityPaths, stats \in PriorityStats :
       changeSource = [ names |-> GitOk(<<path>>),
                        numstat |-> (path :> GitOk(stats)),
                        diff |-> (path :> GitOk(0)) ]
  /\ curation = NewCuration(20000)
  /\ CalculatorInit
  /\ CounterInit
  /\ ClientInit

NextPriority ==
  \/ get_all_changed_files
  \/ prioritize_file
  \/ sort_prioritized

SpecPriority == InitPriority /\ [][NextPriority]_vars

-----------------------------------------------------------------------------
(* The curator: claims C15 to C19 *)

\* the estimated cost of a selected file
CostOf(f) == estimate_tokens(diff_length(f))

\* the step selected a file: curated has one more element
SelectedStep == Len(curation'.curated) = Len(curation.curated) + 1

\* C15: for every list of changed files and every token budget, the sum of the
\* estimated costs of the files selected by the curator is <= the budget, and
\* a file is selected only if its own cost is <= the budget still remaining at
\* the moment it is considered.
C15_SelectionWithinBudget ==
  [][ /\ token_usage(curation'.curated) <= curation'.token_budget
      /\ curation'.pc = "done"
           => curation'.result[1].summary.token_usage <= curation'.token_budget
      /\ SelectedStep
           => CostOf(curation'.curated[Len(curation'.curated)])
                <= curation.token_budget - token_usage(curation.curated) ]_vars

\* a call that returned with a file selected and a file skipped
C15_Witness ==
  ~(/\ curation.pc = "done"
    /\ curation.curated # <<>>
    /\ curation.skipped # <<>>
    /\ token_usage(curation.curated) = curation.token_budget)

\* the paths of a list of files
PathsOf(files) == [i \in 1..Len(files) |-> files[i].path]

\* C16: in the greedy walk over the priority-sorted list, once one file does
\* not fit in the remaining budget, that file and all files after it go to
\* skipped and none of them is selected later, so the selected files always
\* form a prefix of the sorted list (budget 1000 and five files costing 300
\* each give exactly 3 selected and 2 skipped).
C16_SelectedIsPrefix ==
  curation.pc \in {"select", "done"}
    => /\ PathsOf(curation.curated)
            = SubSeq(PathsOf(curation.prioritized), 1, Len(curation.curated))
       /\ (curation.pc = "done" /\ changeSource = ScenarioSource)
            => (Len(curation.curated) = 3 /\ Len(curation.skipped) = 2)

\* the files of the first tier that the walk did not select
TierOneNotSelected(c) ==
  {c.prioritized[i].path : i \in {j \in 1..Len(c.prioritized) :
     /\ c.prioritized[j].priority = 1
     /\ c.prioritized[j].path \notin Range(PathsOf(c.curated))}}

C18_SourceFailureIsFatal ==
  curation.pc = "done"
    => /\ changeSource.names.kind = "ok"
       /\ \A p \in Range(curation.all_files) :
            /\ changeSource.numstat[p].kind = "ok"
            /\ changeSource.diff[p].kind = "ok"

\* the rules of the priority in their order, as whether each one matches, and
\* the tier each one gives
RuleMatches(path_lower, total_changes) ==
  << any_in(security_keywords, path_lower),
     any_in(database_keywords, path_lower),
     any_in(api_keywords, path_lower),
     any_in(core_keywords, path_lower),
     total_changes > LargeChange,
     any_in(config_keywords, path_lower),
     is_test_path(path_lower),
     any_in(doc_keywords, path_lower),
     TRUE >>
RuleTiers == <<1, 1, 1, 2, 2, 3, 4, 5, 3>>

FirstMatch(matches) ==
  CHOOSE i \in 1..Len(matches) : matches[i] /\ \A j \in 1..(i - 1) : ~matches[j]

\* C19: the priority tier of a path is decided by the first matching rule in
\* this fixed order: security keyword -> 1, storage/schema keyword -> 1,
\* API/routing keyword -> 1, core-logic keyword -> 2, more than 100 changed
\* lines -> 2, configuration pattern -> 3, test pattern -> 4, documentation
\* pattern -> 5, otherwise 3; a later rule never overrides an earlier match (a
\* test or documentation file whose path has a security keyword is tier 1),
\* and every path gets a tier in 1..5.
C19_FirstMatchingRule ==
  \A i \in 1..Len(curation.prioritized) :
    LET f == curation.prioritized[i]
        path_lower == Lower(f.path)
        matches == RuleMatches(path_lower, f.insertions + f.deletions)
    IN /\ f.priority = RuleTiers[FirstMatch(matches)]
       /\ f.priority \in 1..5
       /\ (matches[1] /\ (matches[7] \/ matches[8])) => f.priority = 1

\* a test file whose path holds a security keyword and which has more than
\* 100 changed lines has been given priority 1
C19_Witness ==
  ~(\E i \in 1..Len(curation.prioritized) :
      LET f == curation.prioritized[i]
      IN /\ f.path = <<"t", "e", "s", "t", "s", "/", "t", "e", "s", "t", "_",
          "a", "u", "t", "h", ".", "p", "y">>
         /\ f.priority = 1
         /\ f.insertions + f.deletions > LargeChange)

-----------------------------------------------------------------------------
(* Issue consensus calculator *)

\* Issue.__init__: the agent that found an issue is the first to agree with it
Issue(title, location, severity, description, found_by) ==
  [ title |-> title, location |-> location, severity |-> severity,
    description |-> description, found_by |-> found_by,
    agreed_by |-> {found_by}, disagreed_by |-> {} ]

\* Issue.get_key: f"{title.lower().strip()}@{location.lower().strip()}"
get_key(issue) ==
  strip(Lower(issue.title)) \o <<"@">> \o strip(Lower(issue.location))

\* the grave accent, which a TLA+ string cannot hold, stands in the model as
\* a character that no text of the model holds otherwise
BACKTICK == "^"

\* location.replace(BACKTICK, '')
without_backticks(s) == SelectSeq(s, LAMBDA c : c # BACKTICK)

IsLetter(c) == \E i \in 1..26 : UpperCase[i] = c \/ LowerCase[i] = c
IsSlash(c) == c \in {"/", "\\"}
NotSlash(c) == ~IsSlash(c)
NotColon(c) == c # ":"

\* where a greedy character class that starts matching at s[i] stops: the last
\* index of the longest run of characters of the class from i on (i - 1 when
\* s[i] is not of the class)
SpanEnd(s, i, InClass(_)) ==
  LET others == { k \in i..Len(s) : ~InClass(s[k]) }
  IN IF others = {} THEN Len(s)
     ELSE (CHOOSE k \in others : \A m \in others : k <= m) - 1

\* the dots at which ([^/\\]+\.[a-z]+) can match when the match starts at
\* s[i]: a dot after s[i], within the run of non-slash characters that starts
\* there, and followed by a letter (re.IGNORECASE)
DotsFrom(s, i) ==
  { p \in (i + 1)..(SpanEnd(s, i,
      NotSlash) - 1) : s[p] = "." /\ IsLetter(s[p + 1]) }

Max(S) == CHOOSE x \in S : \A y \in S : y <= x
Min(S) == CHOOSE x \in S : \A y \in S : x <= y

\* ConsensusCalculator.normalize_location: re.search takes the leftmost start
\* at which the pattern matches; there the greedy [^/\\]+ gives back
\* characters up to the last dot that a letter follows, [a-z]+ takes the
\* letters after it, :? a colon if there is one, and (\d+)? the digits there
normalize_location(location) ==
  LET s == strip(without_backticks(location))
      starts == { i \in 1..Len(s) : DotsFrom(s, i) # {} }
  IN IF starts = {} THEN s
     ELSE LET i == Min(starts)
              dot == Max(DotsFrom(s, i))
              e == SpanEnd(s, dot + 1, IsLetter)
              from == IF e < Len(s) /\ s[e + 1] = ":" THEN e + 2 ELSE e + 1
              line == SubSeq(s, from, SpanEnd(s, from, IsDigit))
              filename == SubSeq(s, i, e)
          IN IF line # <<>> THEN filename \o <<":">> \o line ELSE filename

\* int(text) of a run of decimal digits
RECURSIVE int(_)
int(digits) ==
  IF digits = <<>> THEN 0
  ELSE 10 * int(SubSeq(digits, 1,
      Len(digits) - 1)) + DigitValue(digits[Len(digits)])

\* re.match(r'([^:]+):(\d+)', loc): at the start of loc, one or more
\* characters other than a colon, a colon, one or more digits; None when
\* loc does not start so
FileAndLine(loc) ==
  LET c == SpanEnd(loc, 1, NotColon) + 1
      d == SpanEnd(loc, c + 1, IsDigit)
  IN IF c > 1 /\ c <= Len(loc) /\ d > c
       THEN Some([file |-> SubSeq(loc, 1, c - 1), line |-> int(SubSeq(loc,
           c + 1, d))])
       ELSE None

abs(n) == IF n < 0 THEN 0 - n ELSE n

\* set(title.split()): the maximal runs of characters that are not whitespace
NotSpace(c) == ~IsSpace(c)
words(title) ==
  LET starts == { i \in 1..Len(title) :
                    NotSpace(title[i]) /\ (i = 1 \/ IsSpace(title[i - 1])) }
  IN { SubSeq(title, i, SpanEnd(title, i, NotSpace)) : i \in starts }

stop_words == { <<"t", "h", "e">>, <<"a">>, <<"a", "n">>, <<"i", "n">>,
    <<"o", "n">>, <<"a", "t">>, <<"t", "o">>, <<"f", "o", "r">>, <<"o",
    "f">>, <<"w", "i", "t", "h">> }

\* the second test of is_same_issue: both locations have a file and a line,
\* the files are equal and the lines are at most 5 apart
NearLines == 5
same_file_near_line(loc1, loc2) ==
  LET match1 == FileAndLine(loc1)
      match2 == FileAndLine(loc2)
  IN /\ match1 # None
     /\ match2 # None
     /\ match1[1].file = match2[1].file
     /\ abs(match1[1].line - match2[1].line) <= NearLines

\* the third test of is_same_issue: the Jaccard similarity of the two sets of
\* title words without the stop words is above 0.5
similar_titles(title1, title2) ==
  LET title1_words == words(Lower(title1)) \ stop_words
      title2_words == words(Lower(title2)) \ stop_words
      intersection == Cardinality(title1_words \cap title2_words)
      union == Cardinality(title1_words \cup title2_words)
  IN /\ title1_words # {}
     /\ title2_words # {}
     /\ 2 * intersection > union

\* ConsensusCalculator.is_same_issue
is_same_issue(issue1, issue2) ==
  LET loc1 == normalize_location(issue1.location)
      loc2 == normalize_location(issue2.location)
  IN \/ loc1 = loc2
     \/ same_file_near_line(loc1, loc2)
     \/ similar_titles(issue1.title, issue2.title)

\* self.issues, a dict in insertion order: the keys, and the issue under each
Keys(issues) == { issues[k].key : k \in 1..Len(issues) }
Entry(key, issue) == [key |-> key, issue |-> issue]

\* self.issues[key] = issue: a new key goes to the end, an old key keeps its
\* place and gets the new issue
dict_set(issues, key, issue) ==
  IF key \in Keys(issues)
    THEN [ k \in 1..Len(issues) |->
             IF issues[k].key = key THEN Entry(key, issue) ELSE issues[k] ]
    ELSE Append(issues, Entry(key, issue))

\* the registered issues that add_issue takes for the same issue as `issue`
Matching(issues, issue) ==
  { k \in 1..Len(issues) : is_same_issue(issue, issues[k].issue) }

\* the issues after add_issue(issue): the first registered issue that is the
\* same issue gets the agent of `issue` in its agreed_by and nothing is
\* registered; without such an issue, `issue` is registered under its key
issues_after_add(issues, issue) ==
  IF Matching(issues, issue) # {}
    THEN LET first == Min(Matching(issues, issue))
         IN [ issues EXCEPT ![first].issue.agreed_by = @ \cup {issue.found_by} ]
    ELSE dict_set(issues, get_key(issue), issue)

\* number of add_issue calls made on one calculator
MaxIssues == 3

\* ConsensusCalculator.add_issue
add_issue(issue) ==
  /\ calculator.added < MaxIssues
  /\ calculator' = [ issues |-> issues_after_add(calculator.issues, issue),
                     added |-> calculator.added + 1,
                     last |-> Some(issue) ]
  /\ UNCHANGED <<consensus, outsideCalculator>>

\* the issues agents report: two titles that share most of their words and a
\* title that shares none with them; one place written in two ways, a place
\* 3 lines further and a place in another file
IssueTitles == { <<"S", "Q", "L", " ", "I", "n", "j", "e", "c", "t", "i",
    "o", "n">>, <<"S", "Q", "L", " ", "i", "n", "j", "e", "c", "t", "i", "o",
    "n", " ", "v", "u", "l", "n", "e", "r", "a", "b", "i", "l", "i", "t",
    "y">>, <<"M", "e", "m", "o", "r", "y", " ", "L", "e", "a", "k">> }
IssueLocations ==
  { <<"d", "a", "t", "a", "b", "a", "s", "e", ".", "p", "y", ":", "4", "2">>,
      <<"s", "r", "c", "/", "d", "a", "t", "a", "b", "a", "s", "e", ".", "p",
      "y", ":", "4", "2">>, <<"d", "a", "t", "a", "b", "a", "s", "e", ".",
      "p", "y", ":", "4", "5">>, <<"p", "r", "o", "c", "e", "s", "s", "o",
      "r", ".", "p", "y", ":", "2", "5", "6">> }
ReviewerNames == { <<"C", "l", "a", "u", "d", "e">>, <<"G", "P", "T", "-",
    "4">> }
ReportedIssues ==
  { Issue(title, location, "CRITICAL", <<>>, found_by) :
      title \in IssueTitles, location \in IssueLocations,
          found_by \in ReviewerNames }

NextCalculator == \E issue \in ReportedIssues : add_issue(issue)

SpecCalculator == Init /\ [][NextCalculator]_vars

\* a step in which add_issue was called
AddStep == calculator'.added = calculator.added + 1

\* the registered issues whose normalized location is that of `issue`
SamePlace(issues, issue) ==
  { k \in 1..Len(issues) :
      normalize_location(issues[k].issue.location) = normalize_location(issue.location) }

\* C20: two issues whose normalized locations are identical are always merged,
\* whatever their titles: when add_issue is called with an issue whose
\* normalized location is that of a registered issue, is_same_issue is true of
\* the two, no further issue is registered, and the agent of the added issue
\* is in the agreed_by of that registered issue afterwards.
C20_SameLocationMerged ==
  [][AddStep =>
       LET issue == calculator'.last[1]
           before == calculator.issues
           after == calculator'.issues
       IN \A k \in SamePlace(before, issue) :
            /\ is_same_issue(issue, before[k].issue)
            /\ Len(after) = Len(before)
            /\ issue.found_by \in after[k].issue.agreed_by]_vars

\* the file a normalized location names: what stands before its first colon
FileOf(location) ==
  LET loc == normalize_location(location)
  IN SubSeq(loc, 1, SpanEnd(loc, 1, NotColon))

\* the registered issues whose location names another file than that of `issue`
OtherFile(issues, issue) ==
  { k \in 1..Len(issues) : FileOf(issues[k].issue.location) # FileOf(issue.location) }

\* C21: two issues whose normalized locations name different files are never
\* merged, however similar their titles: when add_issue is called with an
\* issue, is_same_issue is false of it and of every registered issue at a
\* location in another file, and the call leaves each such issue as it was.
C21_DifferentFilesSeparate ==
  [][AddStep =>
       LET issue == calculator'.last[1]
           before == calculator.issues
           after == calculator'.issues
       IN \A k \in OtherFile(before, issue) :
            /\ ~is_same_issue(issue, before[k].issue)
            /\ after[k] = before[k]]_vars

-----------------------------------------------------------------------------
(* Review texts and critique texts *)

NL == "\n"
NotNewline(c) == c # NL
NotBacktick(c) == c # BACKTICK
IsUpperLetter(c) == \E i \in 1..26 : UpperCase[i] = c

\* str.find(sub, start) with positions counted from 1: the first position
\* from `start` on at which `sub` stands, and 0 when there is none
find(s, sub, start) ==
  LET at == { i \in start..(Len(s) - Len(sub) + 1) : HasPrefixAt(s, i, sub) }
  IN IF at = {} THEN 0 ELSE Min(at)

\* where \s*(.+?)(?=\n|$) or \s*([^\n]+) matches from position p on: \s* takes
\* the white space from p on and gives back what it must for the group to
\* start on a character that is no newline; the group then runs to the end
\* of its line. <<from, to>> of the group, None when there is no match
RestOfLine(s, p) ==
  LET w == SpanEnd(s, p, IsSpace)
      ks == { k \in (p - 1)..w : k + 1 <= Len(s) /\ s[k + 1] # NL }
  IN IF ks = {} THEN None
     ELSE Some(<<Max(ks) + 1, SpanEnd(s, Max(ks) + 1, NotNewline)>>)

\* a match of ###\s*\[([A-Z]+)\]\s*(.+?)(?=\n|$) that starts at position i:
\* the severity, the title before strip() and the position after the match;
\* None when the pattern does not match there
HeadingAt(review, i) ==
  IF ~HasPrefixAt(review, i, <<"#", "#", "#">>) THEN None
  ELSE LET open == SpanEnd(review, i + 3, IsSpace) + 1
           close == SpanEnd(review, open + 1, IsUpperLetter) + 1
       IN IF /\ open <= Len(review) /\ review[open] = "["
             /\ close > open + 1
             /\ close <= Len(review) /\ review[close] = "]"
            THEN LET rest == RestOfLine(review, close + 1)
                 IN IF rest = None THEN None
                    ELSE Some([ severity |-> SubSeq(review, open + 1,
                        close - 1),
                                title |-> SubSeq(review, rest[1][1],
                                    rest[1][2]),
                                end |-> rest[1][2] + 1 ])
            ELSE None

\* re.finditer: the matches from position `from` on, each searched from the
\* end of the one before
RECURSIVE Headings(_, _)
Headings(review, from) ==
  LET starts == { i \in from..Len(review) : HeadingAt(review, i) # None }
  IN IF starts = {} THEN <<>>
     ELSE LET m == HeadingAt(review, Min(starts))[1]
          IN <<m>> \o Headings(review, m.end)

\* the location of an issue block: the text between grave accents after
\* **Location**: , or else the rest of the line after Location: without the
\* white space around it, or else "unknown"
LocationIn(section) ==
  LET marked == { i \in 1..Len(section) :
                    /\ HasPrefixAt(section, i, <<"*", "*", "L", "o", "c",
                        "a", "t", "i", "o", "n", "*", "*", ":">>)
                    /\ LET q == SpanEnd(section, i + 13, IsSpace) + 1
                       IN /\ q <= Len(section) /\ section[q] = BACKTICK
                          /\ SpanEnd(section, q + 1, NotBacktick) > q
                          /\ SpanEnd(section, q + 1,
                              NotBacktick) < Len(section) }
      plain == { i \in 1..Len(section) :
                   /\ HasPrefixAt(section, i, <<"L", "o", "c", "a", "t", "i",
                       "o", "n", ":">>)
                   /\ RestOfLine(section, i + 9) # None }
  IN IF marked # {}
       THEN LET q == SpanEnd(section, Min(marked) + 13, IsSpace) + 1
            IN SubSeq(section, q + 1, SpanEnd(section, q + 1, NotBacktick))
     ELSE IF plain # {}
       THEN LET rest == RestOfLine(section, Min(plain) + 9)[1]
            IN strip(SubSeq(section, rest[1], rest[2]))
     ELSE <<"u", "n", "k", "n", "o", "w", "n">>

\* the description of an issue block: what follows **Problem**: or
\* **Description**: up to the next line that starts with ** or ###, or to the
\* end of the section (re.DOTALL), without the white space around it; "" when
\* the section has no such field
DescriptionIn(section) ==
  LET after(i) == IF HasPrefixAt(section, i, <<"*", "*", "P", "r", "o", "b",
      "l", "e", "m", "*", "*", ":">>) THEN i + 12
                  ELSE IF HasPrefixAt(section, i, <<"*", "*", "D", "e", "s",
                      "c", "r", "i", "p", "t", "i", "o", "n", "*", "*",
                      ":">>) THEN i + 16
                  ELSE 0
      starts == { i \in 1..Len(section) : after(i) # 0 /\ after(i) <= Len(section) }
  IN IF starts = {} THEN <<>>
     ELSE LET p == after(Min(starts))
              w == SpanEnd(section, p, IsSpace)
              from == IF w < Len(section) THEN w + 1 ELSE Len(section)
              stops(e) == \/ HasPrefixAt(section, e + 1, <<NL, "*", "*">>)
                          \/ HasPrefixAt(section, e + 1, <<NL, "#", "#",
                              "#">>)
                          \/ e = Len(section)
                          \/ e = Len(section) - 1 /\ section[Len(section)] = NL
              to == Min({ e \in from..Len(section) : stops(e) })
          IN strip(SubSeq(section, from, to))

\* ConsensusCalculator.extract_issues_from_review
extract_issues_from_review(review, ai_name) ==
  LET matches == Headings(review, 1)
      issue(m) ==
        LET next_section == find(review, <<"#", "#", "#">>, m.end)
            section == IF next_section = 0
                         THEN SubSeq(review, m.end, Len(review))
                         ELSE SubSeq(review, m.end, next_section - 1)
        IN Issue(strip(m.title), LocationIn(section), m.severity,
                 DescriptionIn(section), ai_name)
  IN [ k \in 1..Len(matches) |-> issue(matches[k]) ]

\* the check mark and the cross mark of a critique, which a TLA+ string
\* cannot hold, stand in the model as characters that no text holds otherwise
CHECK == "%"
CROSS == "~"

IsQuote(c) == c \in {"\"", "'"}
NotQuote(c) == ~IsQuote(c)

\* text.split('\n'), as the set of the lines that are not empty
LinesOf(text) ==
  { SubSeq(text, i, SpanEnd(text, i, NotNewline)) :
      i \in { j \in 1..Len(text) : text[j] # NL /\ (j = 1 \/ text[j - 1] = NL) } }

\* re.findall(r'["\']([^"\']+)["\']', line) from position `from` on: a quote,
\* one or more characters that are no quotes, a quote; the next match is
\* searched after the closing quote
RECURSIVE QuotedIn(_, _)
QuotedIn(line, from) ==
  LET opens == { i \in from..Len(line) :
                   /\ IsQuote(line[i])
                   /\ SpanEnd(line, i + 1, NotQuote) > i
                   /\ SpanEnd(line, i + 1, NotQuote) < Len(line) }
  IN IF opens = {} THEN {}
     ELSE LET i == Min(opens)
              e == SpanEnd(line, i + 1, NotQuote)
          IN {SubSeq(line, i + 1, e)} \cup QuotedIn(line, e + 2)

\* group(1) of re.search(r'##\s*<heading>(.+?)(?=##|$)', critique, re.DOTALL):
\* what follows the first such heading, at least one character, up to the
\* next ## or to the end of the text; None when there is no such heading
SectionAfter(critique, heading) ==
  LET after(i) ==
        IF HasPrefixAt(critique, i, <<"#", "#">>)
             /\ HasPrefixAt(critique, SpanEnd(critique, i + 2, IsSpace) + 1,
                 heading)
          THEN SpanEnd(critique, i + 2, IsSpace) + 1 + Len(heading)
          ELSE 0
      starts == { i \in 1..Len(critique) : after(i) # 0 /\ after(i) <= Len(critique) }
  IN IF starts = {} THEN None
     ELSE LET from == after(Min(starts))
              stops(e) == \/ HasPrefixAt(critique, e + 1, <<"#", "#">>)
                          \/ e = Len(critique)
                          \/ e = Len(critique) - 1 /\ critique[Len(critique)] = NL
          IN Some(SubSeq(critique, from,
              Min({ e \in from..Len(critique) : stops(e) })))

\* the quoted references on the lines of a section that hold the mark or,
\* in any case of letters, the word
ReferencesIn(section, mark, word) ==
  IF section = None THEN {}
  ELSE UNION { QuotedIn(line, 1) :
                 line \in { l \in LinesOf(section[1]) :
                              mark \in Range(l) \/ IsSubstring(word,
                                  Lower(l)) } }

\* ConsensusCalculator.parse_critique_agreements
parse_critique_agreements(critique, ai_name) ==
  [ agreements |->
      ReferencesIn(SectionAfter(critique, <<"I", "s", "s", "u", "e", "s",
          " ", "I", " ", "A", "g", "r", "e", "e", " ", "W", "i", "t", "h">>),
          CHECK, <<"a", "g", "r", "e", "e">>),
    disagreements |->
      ReferencesIn(SectionAfter(critique, <<"I", "s", "s", "u", "e", "s",
          " ", "I", " ", "D", "i", "s", "a", "g", "r", "e", "e", " ", "W",
          "i", "t", "h">>), CROSS, <<"d", "i", "s", "a", "g", "r", "e",
          "e">>) ]

\* the test of apply_critique: the reference, in lower case, is in the title
\* in lower case, or the reference as it stands is in the location
refers_to(ref, issue) ==
  IsSubstring(Lower(ref), Lower(issue.title)) \/ IsSubstring(ref,
      issue.location)

\* the issues after ConsensusCalculator.apply_critique(critique, ai_name)
issues_after_critique(issues, critique, ai_name) ==
  LET parsed == parse_critique_agreements(critique, ai_name)
      agrees(issue) == \E ref \in parsed.agreements : refers_to(ref, issue)
      disagrees(issue) == \E ref \in parsed.disagreements : refers_to(ref,
          issue)
  IN [ k \in 1..Len(issues) |->
         [ issues[k] EXCEPT
             !.issue.agreed_by = IF agrees(issues[k].issue) THEN @ \cup {ai_name} ELSE @,
             !.issue.disagreed_by = IF disagrees(issues[k].issue) THEN @ \cup {ai_name} ELSE @ ] ]

\* severity_order.get(x.severity, 3)
severity_order(severity) ==
  IF severity = <<"C", "R", "I", "T", "I", "C", "A", "L">> THEN 0
  ELSE IF severity = <<"M", "A", "J", "O", "R">> THEN 1
  ELSE IF severity = <<"M", "I", "N", "O", "R">> THEN 2
  ELSE 3

\* list.sort(key=(severity_order, -len(agreed_by))): a stable sort, so issues
\* with equal keys stay in the order they had
sort_by_severity(list) ==
  LET before(i, j) ==
        LET x == list[i]
            y == list[j]
        IN \/ severity_order(x.severity) < severity_order(y.severity)
           \/ /\ severity_order(x.severity) = severity_order(y.severity)
              /\ \/ Cardinality(x.agreed_by) > Cardinality(y.agreed_by)
                 \/ Cardinality(x.agreed_by) = Cardinality(y.agreed_by) /\ i < j
      rank(i) == Cardinality({ j \in 1..Len(list) : before(j, i) }) + 1
  IN [ r \in 1..Len(list) |-> list[CHOOSE i \in 1..Len(list) : rank(i) = r] ]

\* the comparisons of calculate_consensus on consensus_pct = agreed_count /
\* total_ais (0 when total_ais is 0), as comparisons of whole numbers
IsAll(agreed_count, total_ais) == total_ais > 0 /\ agreed_count = total_ais
AtLeast66(agreed_count, total_ais) ==
  total_ais > 0 /\ 100 * agreed_count >= 66 * total_ais
AtLeast33(agreed_count, total_ais) ==
  total_ais > 0 /\ 100 * agreed_count >= 33 * total_ais

\* the category when a disputed issue is classified like an undisputed one
category_whether_disputed(issue, total_ais) ==
  LET agreed_count == Cardinality(issue.agreed_by)
  IN IF IsAll(agreed_count, total_ais) THEN "critical"
     ELSE IF AtLeast66(agreed_count, total_ais) THEN "major"
     ELSE IF AtLeast33(agreed_count, total_ais) THEN "minor"
     ELSE "none"

\* the category calculate_consensus gives an issue among critical, major and
\* minor; "none" when it gives none
category(issue, total_ais) ==
  LET agreed_count == Cardinality(issue.agreed_by)
      is_disputed == Cardinality(issue.disagreed_by) > 0
  IN IF IsAll(agreed_count, total_ais) /\ ~is_disputed THEN "critical"
     ELSE IF AtLeast66(agreed_count, total_ais) /\ ~is_disputed THEN "major"
     ELSE IF AtLeast33(agreed_count, total_ais) THEN "minor"
     ELSE "none"

\* calculate_consensus when every test of the classification is an `if` of
\* its own: an issue is put in each of the categories whose test it passes
consensus_of_every_test(issues, total_ais) ==
  LET values == [ k \in 1..Len(issues) |-> issues[k].issue ]
      agreed(issue) == Cardinality(issue.agreed_by)
  IN [ critical |-> sort_by_severity(
                      SelectSeq(values,
                          LAMBDA issue : IsAll(agreed(issue), total_ais)
                                           /\ issue.disagreed_by = {})),
       major |-> sort_by_severity(
                   SelectSeq(values,
                       LAMBDA issue : AtLeast66(agreed(issue), total_ais)
                                        /\ issue.disagreed_by = {})),
       minor |-> sort_by_severity(
                   SelectSeq(values,
                       LAMBDA issue : AtLeast33(agreed(issue), total_ais))),
       disputed |-> sort_by_severity(
                      SelectSeq(values,
                          LAMBDA issue : issue.disagreed_by # {})) ]

\* ConsensusCalculator.calculate_consensus
consensus_of(issues, total_ais) ==
  LET values == [ k \in 1..Len(issues) |-> issues[k].issue ]
      in_category(c) == SelectSeq(values, LAMBDA issue : category(issue,
          total_ais) = c)
  IN [ critical |-> sort_by_severity(in_category("critical")),
       major |-> sort_by_severity(in_category("major")),
       minor |-> sort_by_severity(in_category("minor")),
       disputed |-> sort_by_severity(
                      SelectSeq(values,
                          LAMBDA issue : issue.disagreed_by # {})) ]

\* add_issue for each issue of a list, in the order of the list
RECURSIVE add_issues(_, _)
add_issues(issues, new_issues) ==
  IF new_issues = <<>> THEN issues
  ELSE add_issues(issues_after_add(issues, Head(new_issues)),
      Tail(new_issues))

\* rounds[n].get('content', '') of an agent's reviews, None when the agent has
\* no review or none of round n
ContentOf(reviews, ai_name, n) ==
  IF ai_name \in DOMAIN reviews /\ n \in DOMAIN reviews[ai_name]
    THEN Some(reviews[ai_name][n].content)
    ELSE None

\* the first loop of calculate_consensus_from_session: the issues of the
\* round-1 review of each participating agent are added, agent after agent
RECURSIVE extract_round_1(_, _, _)
extract_round_1(issues, ais, reviews) ==
  IF ais = <<>> THEN issues
  ELSE LET content == ContentOf(reviews, Head(ais), 1)
       IN extract_round_1(
            IF content = None THEN issues
            ELSE add_issues(issues, extract_issues_from_review(content[1],
                Head(ais))),
            Tail(ais), reviews)

\* the second loop: the round-2 critique of each participating agent is applied
RECURSIVE apply_round_2(_, _, _)
apply_round_2(issues, ais, reviews) ==
  IF ais = <<>> THEN issues
  ELSE LET content == ContentOf(reviews, Head(ais), 2)
       IN apply_round_2(
            IF content = None THEN issues
            ELSE issues_after_critique(issues, content[1], Head(ais)),
            Tail(ais), reviews)

\* the issues of the calculator that calculate_consensus_from_session returns
session_issues(session_info) ==
  apply_round_2(
    extract_round_1(<<>>, session_info.participating_ais,
        session_info.reviews),
    session_info.participating_ais, session_info.reviews)

\* ConsensusCalculator.apply_critique
apply_critique(critique, ai_name) ==
  /\ calculator' = [ calculator EXCEPT
                       !.issues = issues_after_critique(@, critique,
                           ai_name) ]
  /\ UNCHANGED <<consensus, outsideCalculator>>

\* ConsensusCalculator.calculate_consensus
calculate_consensus(total_ais) ==
  /\ consensus' = [ op |-> "calculate_consensus", session_info |-> None,
                    total_ais |-> total_ais,
                    result |-> Some(consensus_of(calculator.issues,
                        total_ais)) ]
  /\ UNCHANGED <<calculator, outsideCalculator>>

\* the issues that calculate_consensus_from_session hands to add_issue
RECURSIVE extracted(_, _)
extracted(ais, reviews) ==
  IF ais = <<>> THEN <<>>
  ELSE LET content == ContentOf(reviews, Head(ais), 1)
       IN (IF content = None THEN <<>>
           ELSE extract_issues_from_review(content[1], Head(ais)))
          \o extracted(Tail(ais), reviews)

\* the latest element of a list, None for the empty list
last_of(list) == IF list = <<>> THEN None ELSE Some(list[Len(list)])

\* calculate_consensus_from_session: a new calculator takes the issues of
\* round 1 and the critiques of round 2, and the consensus is calculated for
\* as many agents as participate; the consensus and the calculator are returned
calculate_consensus_from_session(session_info) ==
  /\ calculator' =
       [ issues |-> session_issues(session_info),
         added |-> Len(extracted(session_info.participating_ais,
                                 session_info.reviews)),
         last |-> last_of(extracted(session_info.participating_ais,
                                    session_info.reviews)) ]
  /\ consensus' =
       [ op |-> "calculate_consensus_from_session",
         session_info |-> Some(session_info),
         total_ais |-> Len(session_info.participating_ais),
         result |-> Some(consensus_of(calculator'.issues,
                                      Len(session_info.participating_ais))) ]
  /\ UNCHANGED outsideCalculator

\* the agents of a review with three agents
Claude == <<"C", "l", "a", "u", "d", "e">>
GPT4 == <<"G", "P", "T", "-", "4">>
Gemini == <<"G", "e", "m", "i", "n", "i">>
ThreeAgents == { Claude, GPT4, Gemini }

\* the issues and critiques of the classification runs: two issues that are
\* not the same issue, and critiques that agree or disagree with one of them
\* through a quoted reference to its title
ClassifyIssues ==
  { Issue(<<"W", "e", "a", "k", " ", "H", "a", "s", "h">>, <<"a", "u", "t",
      "h", ".", "p", "y", ":", "1", "0">>, <<"C", "R", "I", "T", "I", "C",
      "A", "L">>, <<>>, Claude),
    Issue(<<"M", "e", "m", "o", "r", "y", " ", "L", "e", "a", "k">>, <<"x",
        ".", "p", "y", ":", "1">>, <<"M", "A", "J", "O", "R">>, <<>>,
        Gemini) }
K_agree == <<"#", "#", " ", "I", "s", "s", "u", "e", "s", " ", "I", " ", "A",
    "g", "r", "e", "e", " ", "W", "i", "t", "h", NL, "-", " ", "\"", "W",
    "e", "a", "k", " ", "H", "a", "s", "h", "\"", ":", " ", CHECK, " ", "C",
    "o", "r", "r", "e", "c", "t", NL>>
K_disagree == <<"#", "#", " ", "I", "s", "s", "u", "e", "s", " ", "I", " ",
    "D", "i", "s", "a", "g", "r", "e", "e", " ", "W", "i", "t", "h", NL, "-",
    " ", "\"", "W", "e", "a", "k", " ", "H", "a", "s", "h", "\"", ":", " ",
    CROSS, " ", "W", "r", "o", "n", "g", NL>>
K_agree_leak == <<"#", "#", " ", "I", "s", "s", "u", "e", "s", " ", "I", " ",
    "A", "g", "r", "e", "e", " ", "W", "i", "t", "h", NL, "-", " ", "\"",
    "M", "e", "m", "o", "r", "y", " ", "L", "e", "a", "k", "\"", ":", " ",
    CHECK, " ", "V", "a", "l", "i", "d", NL>>
ClassifyCritiques == { K_agree, K_disagree, K_agree_leak }

\* the largest number of agents calculate_consensus is called with
MaxAgents == 4

\* a run of the classification adds issues and applies critiques and
\* calculates the consensus after them, as calculate_consensus_from_session does
NextClassify ==
  \/ /\ consensus.op = "none"
     /\ \E issue \in ClassifyIssues : add_issue(issue)
  \/ /\ consensus.op = "none"
     /\ \E critique \in ClassifyCritiques, ai_name \in ThreeAgents :
          apply_critique(critique, ai_name)
  \/ \E total_ais \in 0..MaxAgents : calculate_consensus(total_ais)

SpecClassify == Init /\ [][NextClassify]_vars

\* a step in which calculate_consensus returned
ConsensusStep == consensus' # consensus

\* issue is in the bucket of that name of the returned consensus
InBucket(result, bucket, issue) ==
  \E k \in 1..Len(result[bucket]) : result[bucket][k] = issue

\* C23: calculate_consensus(total) classifies each registered issue with
\* f = |agreed_by| / total as follows: f = 1.0 and no disagreement -> critical;
\* f >= 0.66, f # 1.0 and no disagreement -> major; otherwise f >= 0.33 ->
\* minor, disputed or not; f < 0.33 -> none of the three; and every issue
\* with a non-empty disagreed_by is in disputed whatever f is (f is taken as
\* 0 when total is 0).
C23_Classification ==
  [][ConsensusStep =>
       LET result == consensus'.result[1]
           total == consensus'.total_ais
       IN \A k \in 1..Len(calculator'.issues) :
            LET issue == calculator'.issues[k].issue
                agreed == Cardinality(issue.agreed_by)
                undisputed == issue.disagreed_by = {}
                all == total > 0 /\ agreed = total
                two_thirds == total > 0 /\ 100 * agreed >= 66 * total
                one_third == total > 0 /\ 100 * agreed >= 33 * total
                critical == all /\ undisputed
                major == two_thirds /\ ~all /\ undisputed
            IN /\ InBucket(result, "critical", issue) <=> critical
               /\ InBucket(result, "major", issue) <=> major
               /\ InBucket(result, "minor", issue)
                    <=> (one_third /\ ~critical /\ ~major)
               /\ InBucket(result, "disputed", issue) <=> ~undisputed]_vars

\* a consensus for 4 agents has been calculated in which an issue without
\* disagreement is major, an issue found by one agent is in no bucket but
\* disputed, and a consensus in which a disputed issue is minor
C23_Witness ==
  ~(/\ consensus.op = "calculate_consensus"
    /\ consensus.total_ais = MaxAgents
    /\ \E k \in 1..Len(calculator.issues) :
         LET issue == calculator.issues[k].issue
         IN /\ Cardinality(issue.agreed_by) = 3
            /\ InBucket(consensus.result[1], "major", issue)
    /\ \E k \in 1..Len(calculator.issues) :
         LET issue == calculator.issues[k].issue
         IN /\ Cardinality(issue.agreed_by) = 1
            /\ InBucket(consensus.result[1], "disputed", issue)
            /\ ~InBucket(consensus.result[1], "minor", issue))

\* C24: with 3 agents, an issue that two agents agree on and the third agent
\* disagrees with is placed by calculate_consensus(3) in disputed and also
\* in major.
C24_DisputedAlsoMajor ==
  [][(ConsensusStep /\ consensus'.total_ais = 3) =>
       \A k \in 1..Len(calculator'.issues) :
         LET issue == calculator'.issues[k].issue
         IN (/\ Cardinality(issue.agreed_by) = 2
             /\ Cardinality(issue.disagreed_by) = 1
             /\ issue.agreed_by \cap issue.disagreed_by = {})
              => /\ InBucket(consensus'.result[1], "disputed", issue)
                 /\ InBucket(consensus'.result[1], "major", issue)]_vars

\* the round-1 reviews and the round-2 critiques of the sessions: the review
\* of the lead with one CRITICAL issue at auth.py:10, a review with another
\* title at the same place, a review with the same title in another file; a
\* critique that agrees through a quoted title, one that does so after the
\* name of the agent that found it, and one that disagrees
R_weak == <<"#", "#", "#", " ", "[", "C", "R", "I", "T", "I", "C", "A", "L",
    "]", " ", "W", "e", "a", "k", " ", "H", "a", "s", "h", NL, "*", "*", "L",
    "o", "c", "a", "t", "i", "o", "n", "*", "*", ":", " ", BACKTICK, "a",
    "u", "t", "h", ".", "p", "y", ":", "1", "0", BACKTICK, NL, "*", "*", "P",
    "r", "o", "b", "l", "e", "m", "*", "*", ":", " ", "m", "d", "5", NL>>
R_leak_same_place == <<"#", "#", "#", " ", "[", "M", "A", "J", "O", "R", "]",
    " ", "M", "e", "m", "o", "r", "y", " ", "L", "e", "a", "k", NL, "*", "*",
    "L", "o", "c", "a", "t", "i", "o", "n", "*", "*", ":", " ", BACKTICK,
    "s", "r", "c", "/", "a", "u", "t", "h", ".", "p", "y", ":", "1", "0",
    BACKTICK, NL>>
R_weak_elsewhere == <<"#", "#", "#", " ", "[", "C", "R", "I", "T", "I", "C",
    "A", "L", "]", " ", "W", "e", "a", "k", " ", "H", "a", "s", "h", NL, "*",
    "*", "L", "o", "c", "a", "t", "i", "o", "n", "*", "*", ":", " ",
    BACKTICK, "d", "b", ".", "p", "y", ":", "7", "7", BACKTICK, NL>>
K_agree_named == <<"#", "#", " ", "I", "s", "s", "u", "e", "s", " ", "I",
    " ", "A", "g", "r", "e", "e", " ", "W", "i", "t", "h", NL, "-", " ", "C",
    "l", "a", "u", "d", "e", "'", "s", " ", "\"", "W", "e", "a", "k", " ",
    "H", "a", "s", "h", "\"", " ", "f", "i", "n", "d", "i", "n", "g", ":",
    " ", CHECK, " ", "C", "o", "r", "r", "e", "c", "t", NL>>
PeerReviews == { None, Some(R_leak_same_place), Some(R_weak_elsewhere) }
PeerCritiques == { None, Some(K_agree), Some(K_agree_named),
    Some(K_disagree) }

\* the rounds of an agent in session_info['reviews']: round 1 and round 2,
\* each only if the agent submitted in it
RoundsOfAgent(review, critique) ==
  [ n \in (IF review = None THEN {} ELSE {1}) \cup (IF critique = None THEN {} ELSE {2})
      |-> [content |-> IF n = 1 THEN review[1] ELSE critique[1]] ]

\* the agents that have an entry in session_info['reviews']
ReviewsOf(rounds) ==
  [ ai_name \in { a \in DOMAIN rounds : DOMAIN rounds[a] # {} } |-> rounds[ai_name] ]

\* what get_session_info() returns about a session of three agents, as far as
\* calculate_consensus_from_session reads it
SessionInfo(participating_ais, rounds) ==
  [ participating_ais |-> participating_ais, reviews |-> ReviewsOf(rounds) ]

\* the orders in which the three agents can be listed
AgentOrders ==
  { order \in [1..3 -> ThreeAgents] : \A i,
      j \in 1..3 : order[i] = order[j] => i = j }

\* a session of three agents whose lead found the issue at auth.py:10 is about
\* to be handed to calculate_consensus_from_session
InitSession ==
  /\ OrchestratorInit
  /\ ServerInit
  /\ CuratorInit
  /\ CounterInit
  /\ ClientInit
  /\ calculator = [issues |-> <<>>, added |-> 0, last |-> None]
  /\ \E order \in AgentOrders, r1, r2 \in PeerReviews, k1,
      k2 \in PeerCritiques :
       consensus =
         [ op |-> "none", total_ais |-> 0, result |-> None,
           session_info |->
             Some(SessionInfo(order,
                    (Claude :> RoundsOfAgent(Some(R_weak), None))
                    @@ (GPT4 :> RoundsOfAgent(r1, k1))
                    @@ (Gemini :> RoundsOfAgent(r2, k2)))) ]

NextSession ==
  /\ consensus.op = "none"
  /\ consensus.session_info # None
  /\ calculate_consensus_from_session(consensus.session_info[1])

SpecSession == InitSession /\ [][NextSession]_vars

\* the groups of a calculator: the agreed_by and the disagreed_by of each
\* registered issue
Groups(issues) ==
  { <<issues[k].issue.agreed_by,
      issues[k].issue.disagreed_by>> : k \in 1..Len(issues) }

\* the contents of the buckets of a consensus, each as the groups in it
BucketGroups(result) ==
  [ bucket \in {"critical", "major", "minor", "disputed"} |->
      { <<result[bucket][k].agreed_by, result[bucket][k].disagreed_by>> :
          k \in 1..Len(result[bucket]) } ]

\* C22: the output of the consensus calculator is a function of the set of
\* submissions only: with the same reviews and critiques, every order of the
\* participating agents, and so every order in which the issues are
\* registered, gives the same groups of agents and the same bucket contents.
C22_OrderIndependent ==
  consensus.op = "calculate_consensus_from_session"
    => LET session_info == consensus.session_info[1]
       IN \A order \in AgentOrders :
            LET issues == session_issues([session_info EXCEPT !.participating_ais = order])
            IN /\ Groups(issues) = Groups(calculator.issues)
               /\ BucketGroups(consensus_of(issues,
                   3)) = BucketGroups(consensus.result[1])

\* the peers of a session that found nothing themselves and whose critiques
\* each agree with the issue of the lead through a quoted reference to its title
BothPeersAgree(session_info) ==
  \A peer \in {GPT4, Gemini} :
    /\ peer \in DOMAIN session_info.reviews
    /\ DOMAIN session_info.reviews[peer] = {2}
    /\ session_info.reviews[peer][2].content \in {K_agree, K_agree_named}

\* C25: with 3 agents, when the round-1 text of the lead has one CRITICAL
\* issue block at auth.py:10 and each of the two peers submits a critique
\* that agrees with it through a quoted reference to its title, the
\* agreed_by of the issue has size 3 after the critiques are applied and
\* calculate_consensus(3) places it in critical.
C25_AgreedByAllIsCritical ==
  (/\ consensus.op = "calculate_consensus_from_session"
   /\ BothPeersAgree(consensus.session_info[1]))
    => /\ Len(calculator.issues) = 1
       /\ Cardinality(calculator.issues[1].issue.agreed_by) = 3
       /\ InBucket(consensus.result[1], "critical",
           calculator.issues[1].issue)

\* ---------------------------------------------------------------------
\* token_counter: count_tokens and truncate_to_tokens
\* ---------------------------------------------------------------------

\* the positions of a text where a token of the encoding starts: a stand-in
\* for the encoding that tiktoken provides, whose vocabulary is not part of
\* the repository; a run of letters is one token, every other character is a
\* token of its own
TokenStarts(text) ==
  { i \in 1..Len(text) : \/ i = 1
                         \/ ~IsLetter(text[i])
                         \/ ~IsLetter(text[i - 1]) }

\* encoding.encode(text): the tokens of a text, in order
encode(text) ==
  LET starts == TokenStarts(text)
      start(n) == CHOOSE i \in starts : Cardinality({ j \in starts : j < i }) = n - 1
  IN [ n \in 1..Cardinality(starts) |->
         SubSeq(text, start(n),
             Min({ j \in starts \cup {Len(text) + 1} : j > start(n) }) - 1) ]

\* encoding.decode(tokens): the text of a list of tokens
RECURSIVE decode(_)
decode(tokens) ==
  IF tokens = <<>> THEN <<>> ELSE Head(tokens) \o decode(Tail(tokens))

\* count_tokens(text): the number of tokens of the encoding when tiktoken
\* can be imported, a quarter of the number of characters when it cannot
count_tokens(tiktoken, text) ==
  IF tiktoken THEN Len(encode(text)) ELSE Len(text) \div 4

\* the fallback of truncate_to_tokens when tiktoken cannot be imported:
\* character-based truncation
truncated_by_chars(text, max_tokens, suffix) ==
  LET max_chars == max_tokens * 4
  IN IF Len(text) <= max_chars
     THEN <<text, FALSE>>
     ELSE <<SubSeq(text, 1, max_chars) \o suffix, TRUE>>

\* truncate_to_tokens with the encoding of tiktoken
truncated_by_tokens(text, max_tokens, suffix) ==
  LET tokens == encode(text)
      suffix_tokens == encode(suffix)
      available_tokens == max_tokens - Len(suffix_tokens)
  IN IF Len(tokens) <= max_tokens
     THEN <<text, FALSE>>
     ELSE IF available_tokens <= 0
          THEN <<suffix, TRUE>>
          ELSE <<decode(SubSeq(tokens, 1, available_tokens)) \o suffix, TRUE>>

\* what truncate_to_tokens(text, max_tokens, suffix=suffix) returns:
\* (truncated_text, was_truncated)
truncated(tiktoken, text, max_tokens, suffix) ==
  IF tiktoken
  THEN truncated_by_tokens(text, max_tokens, suffix)
  ELSE truncated_by_chars(text, max_tokens, suffix)

\* truncate_to_tokens(text, max_tokens, suffix=suffix)
truncate_to_tokens(text, max_tokens, suffix) ==
  /\ truncation' =
       [ truncation EXCEPT !.text = text, !.max_tokens = max_tokens,
                           !.suffix = suffix, !.calls = @ + 1,
                           !.result = Some(truncated(truncation.tiktoken,
                               text,
                                                     max_tokens, suffix)) ]
  /\ UNCHANGED outsideCounter

\* the texts, the budgets and the suffixes of the truncate_to_tokens calls
MaxTokens == 5
MaxTruncations == 2
DefaultSuffix == <<NL, NL, ".", ".", ".", "(", "t", "r", "u", "n", "c", "a",
    "t", "e", "d", ")">>
TruncateTexts == { <<>>, <<"o", "k">>, <<"a", "b", " ", "c", "d", " ", "e",
    "f", " ", "g", "h">>, <<"T", "h", "i", "s", " ", "i", "s", " ", "a", " ",
    "v", "e", "r", "y", " ", "l", "o", "n", "g", " ", "t", "e", "x", "t",
    ".", " ">> }
TruncateSuffixes == { <<>>, <<".", ".", ".", "E", "N", "D">>, DefaultSuffix }

\* a text is about to be truncated, in a process that can import tiktoken or
\* in one that cannot
InitTruncate ==
  /\ OrchestratorInit
  /\ ServerInit
  /\ CuratorInit
  /\ CalculatorInit
  /\ \E tiktoken \in BOOLEAN, text \in TruncateTexts,
        max_tokens \in 0..MaxTokens, suffix \in TruncateSuffixes :
       truncation = [tiktoken |-> tiktoken, text |-> text,
           max_tokens |-> max_tokens,
                     suffix |-> suffix, calls |-> 0, result |-> None]
  /\ ClientInit

\* the text is truncated, and what was returned is truncated again with the
\* same budget and suffix
NextTruncate ==
  \/ /\ truncation.calls = 0
     /\ truncate_to_tokens(truncation.text, truncation.max_tokens,
         truncation.suffix)
  \/ /\ truncation.calls \in 1..(MaxTruncations - 1)
     /\ truncate_to_tokens(truncation.result[1][1], truncation.max_tokens,
                           truncation.suffix)

SpecTruncate == InitTruncate /\ [][NextTruncate]_vars

\* C26: for every text, every budget N and every suffix whose estimated size
\* is at most N, the string that truncate_to_tokens(text, N, suffix) returns
\* has an estimated size (count_tokens with the same estimator) of at most N,
\* with the encoding of tiktoken and with the character-based fallback alike.
C26_ResultWithinBudget ==
  (/\ truncation.result # None
   /\ count_tokens(truncation.tiktoken,
       truncation.suffix) <= truncation.max_tokens)
    => count_tokens(truncation.tiktoken,
        truncation.result[1][1]) <= truncation.max_tokens


\* C28: the artifact bundle of a session is generated exactly once, by the
\* call that finalizes the session (consensus reached, forced stop at
\* max_rounds, or an explicit finalize_review): that call writes a bundle of
\* the session, and no call on a session that is not finalized by it, or that
\* was finalized before, writes a bundle or changes one.
C28_BundleOnceAtFinalize ==
  [][\A sid \in DOMAIN sessions : \A op \in SessionOps :
       CallStep(op, sid)
         => IF ~Finalized(sessions[sid]) /\ Finalized(sessions'[sid])
              THEN /\ lastCall'.bundle # None
                   /\ lastCall'.bundle[1] \in DOMAIN artifacts'
                   /\ artifacts'[lastCall'.bundle[1]].session_id = sid
                   /\ \A dir \in DOMAIN artifacts : artifacts'[dir] = artifacts[dir]
              ELSE /\ lastCall'.bundle = None
                   /\ artifacts' = artifacts]_vars

\* C30: a submit_review under a name that is not the lead is passive in
\* every round: it records the text at (agent, current_round) and nothing
\* else; it leaves current_round, consensus_reached and final_review as they
\* were, invokes no peer and generates no artifact bundle.
C30_NonLeadPassive ==
  [][\A sid \in DOMAIN sessions :
       (CallStep("submit_review", sid) /\ ~IsLead(lastCall'.ai_name[1]))
         => LET s == sessions[sid]
                s2 == sessions'[sid]
                ai_name == lastCall'.ai_name[1]
            IN /\ s2.current_round = s.current_round
               /\ s2.consensus_reached = s.consensus_reached
               /\ s2.final_review = s.final_review
               /\ lastCall'.invoked = <<>>
               /\ lastCall'.bundle = None
               /\ artifacts' = artifacts
               /\ [s2 EXCEPT !.reviews = s.reviews] = s
               /\ s.current_round \in DOMAIN RoundsOf(s2, ai_name)
               /\ \A n \in DOMAIN RoundsOf(s2, ai_name) \ {s.current_round} :
                    /\ n \in DOMAIN RoundsOf(s, ai_name)
                    /\ RoundsOf(s2, ai_name)[n] = RoundsOf(s, ai_name)[n]
               /\ \A i \in 1..Len(s2.reviews) :
                    s2.reviews[i].ai_name # ai_name
                      => /\ i <= Len(s.reviews)
                         /\ s2.reviews[i] = s.reviews[i]]_vars

\* a name that is not the lead has submitted a review in a round after the
\* first of a session with curated data
C30_Witness ==
  ~(/\ lastCall.op = "submit_review"
    /\ lastCall.ai_name # None
    /\ ~IsLead(lastCall.ai_name[1])
    /\ lastCall.session_id \in DOMAIN sessions
    /\ sessions[lastCall.session_id].current_round >= 2
    /\ Truthy(sessions[lastCall.session_id].curated_data)
    /\ HasAgent(sessions[lastCall.session_id].reviews, lastCall.ai_name[1]))


\* SpecArtifacts: two sessions for the same target, created at the clock
\* seconds 0 and 1 and advanced to round 2, in the second after the latest of
\* these calls; the calls are counted from this state on
SessionInRound2(t) ==
  Session_advance_round(
    NewSession(SessionIdOf(t), BaseBranch, TargetBranch, Some(T_diff), 2, None, t))

InitArtifacts ==
  /\ now = MaxTime
  /\ sessions = (SessionIdOf(0) :> SessionInRound2(0).session)
                  @@ (SessionIdOf(1) :> SessionInRound2(1).session)
  /\ artifacts = <<>>
  /\ calls = 0
  /\ lastCall = Call("advance_round", SessionIdOf(1), SessionInRound2(1).result)
  /\ ServerInit
  /\ CuratorInit
  /\ CalculatorInit
  /\ CounterInit
  /\ ClientInit

NextArtifacts == SessionCalls(DOMAIN sessions, {CLAUDE}, {T_lgtm, T_incorrect})

SpecArtifacts == InitArtifacts /\ [][NextArtifacts]_vars

\* the name of an artifact directory contains the session id: the name is
\* made of the target and the time stamp, and a name with the session id in
\* it has the id as a further part
NamesSession(dir, session_id) == \E k \in 3..Len(dir) : dir[k] = session_id

\* C29: the name of the artifact directory of a session contains the
\* session id, and the bundles of two different sessions never get the same
\* directory, even when both are for the same target and written in the
\* same second.
C29_DirectoryPerSession ==
  [][\A sid \in DOMAIN sessions :
       (CallStep("submit_review", sid) /\ lastCall'.bundle # None)
         => LET dir == lastCall'.bundle[1]
            IN /\ NamesSession(dir, sid)
               /\ dir \in DOMAIN artifacts => artifacts[dir].session_id = sid]_vars


\* C31: when submit_review calls are made on one session under distinct
\* agent names, in whatever order they are taken, the text of each call stays
\* in the submission map under its own agent name and round: a call under one
\* name never replaces or removes a text recorded under another name.
C31_NoSubmissionLost ==
  [][\A sid \in DOMAIN sessions :
       CallStep("submit_review", sid)
         => \A i \in 1..Len(sessions[sid].reviews) :
              LET entry == sessions[sid].reviews[i]
              IN entry.ai_name # lastCall'.ai_name[1]
                   => /\ HasAgent(sessions'[sid].reviews, entry.ai_name)
                      /\ \A n \in DOMAIN entry.rounds :
                           /\ n \in DOMAIN RoundsOf(sessions'[sid], entry.ai_name)
                           /\ RoundsOf(sessions'[sid], entry.ai_name)[n] = entry.rounds[n]]_vars

-----------------------------------------------------------------------------
(* The AI client: AIClient.call_ai and AIClient.call_ai_with_retry *)

\* what subprocess.run does on one invocation of the command line tool: it
\* raises, or it completes with a return code and an output
Run(exception, returncode, out) ==
  [exception |-> exception, returncode |-> returncode, stdout |-> out]

\* AIClient.call_ai on one invocation: the class of the exception it raises
\* ("none" when it returns) and the response it returns
call_ai(run) ==
  IF run.exception = "FileNotFoundError"
    THEN [raised |-> "AIModelNotFoundError", response |-> <<>>]
  ELSE IF run.exception = "TimeoutExpired"
    THEN [raised |-> "AITimeoutError", response |-> <<>>]
  ELSE IF run.exception # "none"
    THEN [raised |-> "AIResponseError", response |-> <<>>]
  ELSE IF run.returncode # 0
    THEN [raised |-> "AIResponseError", response |-> <<>>]
  ELSE IF strip(run.stdout) = <<>>
    THEN [raised |-> "AIResponseError", response |-> <<>>]
  ELSE [raised |-> "none", response |-> strip(run.stdout)]

\* the loop `for attempt in range(max_retries)` of call_ai_with_retry from
\* the given attempt on, runs[i] being what the tool does on the i-th
\* invocation: a return ends it, AIModelNotFoundError is raised again, the two
\* other classes go on to the next attempt, and the end of the loop raises
\* AIResponseError
RECURSIVE retry_loop_past_not_found(_, _, _)
retry_loop_past_not_found(runs, attempt, max_retries) ==
  IF attempt >= max_retries
    THEN [raised |-> "AIResponseError", response |-> <<>>,
          invocations |-> attempt]
    ELSE IF call_ai(runs[attempt + 1]).raised = "none"
      THEN [invocations |-> attempt + 1] @@ call_ai(runs[attempt + 1])
      ELSE retry_loop_past_not_found(runs, attempt + 1, max_retries)

RECURSIVE retry_loop(_, _, _)
retry_loop(runs, attempt, max_retries) ==
  IF attempt >= max_retries
    THEN [raised |-> "AIResponseError", response |-> <<>>,
          invocations |-> attempt]
    ELSE IF call_ai(runs[attempt + 1]).raised
              \in {"AITimeoutError", "AIResponseError"}
      THEN retry_loop(runs, attempt + 1, max_retries)
      ELSE [invocations |-> attempt + 1] @@ call_ai(runs[attempt + 1])

\* one pass of the loop body of _trigger_peer_reviews for one peer: call_ai is
\* called once inside `try`, and `except Exception` records the peer
peer_call(runs) ==
  [ invocations |-> 1,
    status |-> IF call_ai(runs[1]).raised = "none" THEN "success" ELSE "error" ]
    @@ call_ai(runs[1])

\* AIClient.call_ai_with_retry
call_ai_with_retry(runs, max_retries) ==
  /\ client.op = "none"
  /\ client' = [ op |-> "call_ai_with_retry", max_retries |-> max_retries,
                 runs |-> runs,
                 result |-> Some(retry_loop(runs, 0, max_retries)) ]
  /\ UNCHANGED outsideClient

\* the invocation of one peer by _trigger_peer_reviews
trigger_peer_review(runs) ==
  /\ client.op = "none"
  /\ client' = [ op |-> "_trigger_peer_reviews", max_retries |-> 0,
                 runs |-> runs, result |-> Some(peer_call(runs)) ]
  /\ UNCHANGED outsideClient

\* the largest max_retries passed, and what the tool can do on an invocation
MaxRetries == 3
Runs ==
  { Run("FileNotFoundError", 0, <<>>), Run("TimeoutExpired", 0, <<>>),
    Run("PermissionError", 0, <<>>), Run("none", 1, <<>>),
    Run("none", 0, <<" ">>), Run("none", 0, T_lgtm) }

\* SpecClient: one call of the client, whatever the tool does on each of the
\* invocations the call can make
NextClient ==
  \/ \E k \in 0..MaxRetries : \E runs \in [1..k -> Runs] :
       call_ai_with_retry(runs, k)
  \/ \E runs \in [1..MaxRetries -> Runs] : trigger_peer_review(runs)

SpecClient == Init /\ [][NextClient]_vars

\* the invocations that failed with AITimeoutError or AIResponseError
Transient(run) == call_ai(run).raised \in {"AITimeoutError", "AIResponseError"}

\* C32: a peer whose invocation failed with AITimeoutError or AIResponseError
\* is invoked again before it is recorded as failed.
C32_PeerRetried ==
  (client.op = "_trigger_peer_reviews" /\ Transient(client.runs[1]))
    => client.result[1].invocations >= 2

\* C33: call_ai_with_retry with max_retries = k >= 1 invokes the tool at most
\* k times; it returns the first response without a further invocation, raises
\* AIModelNotFoundError without a further invocation, and raises
\* AIResponseError after k invocations that each failed with AITimeoutError or
\* AIResponseError.
C33_BoundedRetry ==
  (client.op = "call_ai_with_retry" /\ client.max_retries >= 1)
    => LET k == client.max_retries
           res == client.result[1]
           ends == {i \in 1..k : ~Transient(client.runs[i])}
           first == CHOOSE i \in ends : \A j \in ends : i <= j
       IN /\ res.invocations <= k
          /\ ends # {}
               => /\ res.invocations = first
                  /\ res.raised = call_ai(client.runs[first]).raised
                  /\ res.response = call_ai(client.runs[first]).response
                  /\ res.raised \in {"none", "AIModelNotFoundError"}
          /\ ends = {}
               => /\ res.invocations = k
                  /\ res.raised = "AIResponseError"

\* a call with three attempts that returned the response of the second
\* invocation after the first one timed out
C33_Witness ==
  ~(/\ client.op = "call_ai_with_retry"
    /\ client.max_retries = 3
    /\ call_ai(client.runs[1]).raised = "AITimeoutError"
    /\ client.result[1].raised = "none"
    /\ client.result[1].response = T_lgtm
    /\ client.result[1].invocations = 2)

\* C34: submit_review(agent, text) on an existing session stores the text
\* under the agent's name and the round the session was in when the call was
\* made, in place of any earlier text of that agent for that round, and leaves
\* as they were the entries of every other agent, the agent's entries of other
\* rounds and the progress log.
C34_SubmitStoresOwnEntryOnly ==
  [][\A sid \in DOMAIN sessions, agent \in AgentNames, text \in Texts :
       \A av \in AvailableChoices, o \in PeerOutcomeChoices(sid, agent, text) :
         submit_review(sid, agent, text, av, o)
           => LET round == sessions[sid].current_round
                  before == sessions[sid]
                  after == sessions'[sid]
              IN /\ round \in DOMAIN RoundsOf(after, agent)
                 /\ RoundsOf(after, agent)[round] = text
                 /\ \A n \in DOMAIN RoundsOf(before, agent)
                               \cup DOMAIN RoundsOf(after, agent) :
                      n # round
                        => /\ n \in DOMAIN RoundsOf(before, agent)
                           /\ n \in DOMAIN RoundsOf(after, agent)
                           /\ RoundsOf(after, agent)[n] = RoundsOf(before, agent)[n]
                 /\ \A i \in 1..Len(after.reviews) :
                      after.reviews[i].ai_name # agent
                        => RoundsOf(before, after.reviews[i].ai_name)
                             = after.reviews[i].rounds
                 /\ \A i \in 1..Len(before.reviews) :
                      before.reviews[i].ai_name # agent
                        => RoundsOf(after, before.reviews[i].ai_name)
                             = before.reviews[i].rounds
                 /\ after.progress = before.progress]_vars

\* C35: when max_tokens is smaller than the estimated size of the suffix
\* alone and the text does not fit in max_tokens, truncate_to_tokens returns
\* exactly the suffix, with was_truncated true, and no part of the text.
C35_SuffixAloneWhenTooLong ==
  (/\ truncation.result # None
   /\ truncation.max_tokens < count_tokens(truncation.tiktoken, truncation.suffix)
   /\ count_tokens(truncation.tiktoken, truncation.text) > truncation.max_tokens)
    => truncation.result[1] = <<truncation.suffix, TRUE>>

-----------------------------------------------------------------------------
(* The lead agent alone *)

\* the names under which the lead agent submits
LeadNames == {CLAUDE, claude}

\* SpecLead: a session has just been created, and from then on the lead agent
\* calls submit_review on it and no other operation is called
InitLead ==
  /\ \E c \in CuratedChoices, m \in MaxRoundsChoices, a \in TargetAIChoices :
       /\ sessions = (SessionIdOf(0)
                        :> NewSession(SessionIdOf(0), BaseBranch, TargetBranch,
                                      c, m, a, 0))
  /\ now = 0
  /\ artifacts = <<>>
  /\ calls = 1
  /\ lastCall = Call("create_review_session", SessionIdOf(0),
                     [session_id |-> SessionIdOf(0)])
  /\ ServerInit
  /\ CuratorInit
  /\ CalculatorInit
  /\ CounterInit
  /\ ClientInit

NextLead ==
  \E sid \in DOMAIN sessions, n \in LeadNames, r \in Texts :
    \E av \in AvailableChoices, o \in PeerOutcomeChoices(sid, n, r) :
      submit_review(sid, n, r, av, o)

SpecLead == InitLead /\ [][NextLead]_vars

\* the submit_review calls the lead has made since the session was created
LeadSubmissions == calls - 1

\* C36: when the lead keeps calling submit_review on a session and no other
\* operation is called, the session is finalized once the lead has made its
\* first submission and max_rounds further ones.
C36_LeadAloneFinalizes ==
  \A sid \in DOMAIN sessions :
    (/\ Truthy(sessions[sid].curated_data)
     /\ sessions[sid].max_rounds >= 1
     /\ LeadSubmissions >= sessions[sid].max_rounds + 1)
      => Finalized(sessions[sid])

\* C37: the consensus signal computed on a lead submission never counts the
\* lead's own submission as peer feedback, under whichever spelling of the
\* lead's name the lead check accepts: the feedbacks it counts are as many as
\* the submissions of the round made under names that are not lead names.
C37_LeadNotCountedAsPeer ==
  [][\A sid \in DOMAIN sessions :
       (LeadSubmitStep(sid) /\ lastCall'.consensus # None)
         => lastCall'.consensus[1].total_feedbacks
              = Cardinality(NonLeadInRound(sessions'[sid],
                                           sessions[sid].current_round))]_vars

\* the places of a bucket of the returned consensus that hold the issue
PlacesIn(result, bucket, issue) ==
  { k \in 1..Len(result[bucket]) : result[bucket][k] = issue }

\* C38: in every result of calculate_consensus, each registered issue is in
\* at most one of the buckets critical, major and minor, and at most once in
\* any single bucket.
C38_OneBucketOnce ==
  [][ConsensusStep =>
       LET result == consensus'.result[1]
       IN \A k \in 1..Len(calculator'.issues) :
            LET issue == calculator'.issues[k].issue
            IN /\ Cardinality({ b \in {"critical", "major", "minor"} :
                                  InBucket(result, b, issue) }) <= 1
               /\ \A b \in {"critical", "major", "minor", "disputed"} :
                    Cardinality(PlacesIn(result, b, issue)) <= 1]_vars

\* a consensus for 3 agents has been calculated over at least two registered
\* issues, one of them agreed by all three agents without disagreement, which
\* passes the tests of the three categories and is in critical
C38_Witness ==
  ~(/\ consensus.op = "calculate_consensus"
    /\ consensus.total_ais = 3
    /\ Len(calculator.issues) >= 2
    /\ \E k \in 1..Len(calculator.issues) :
         LET issue == calculator.issues[k].issue
         IN /\ Cardinality(issue.agreed_by) = 3
            /\ issue.disagreed_by = {}
            /\ InBucket(consensus.result[1], "critical", issue)
            /\ ~InBucket(consensus.result[1], "minor", issue))

-----------------------------------------------------------------------------
(* Issues without a location *)

\* the review of an agent that reports one issue: a heading with the title,
\* the location line when a location is given, and the problem line
ReviewOf(title, location) ==
  <<"#", "#", "#", " ", "[", "M", "A", "J", "O", "R", "]",
      " ">> \o title \o <<NL>>
    \o (IF location = None THEN <<>>
        ELSE <<"*", "*", "L", "o", "c", "a", "t", "i", "o", "n", "*", "*",
            ":", " ">> \o <<BACKTICK>> \o location[1] \o <<BACKTICK, NL>>)
    \o <<"*", "*", "P", "r", "o", "b", "l", "e", "m", "*", "*", ":", " ",
        "f", "o", "u", "n", "d", NL>>

\* the reviews that give no location, and the reviews agents submit
ReviewsWithoutLocation == { ReviewOf(title, None) : title \in IssueTitles }
IssueReviews ==
  ReviewsWithoutLocation
    \cup { ReviewOf(title, Some(<<"d", "a", "t", "a", "b", "a", "s", "e",
        ".", "p", "y", ":", "4", "2">>)) : title \in IssueTitles }

\* the placeholder of extract_issues_from_review for a missing location
Unknown == <<"u", "n", "k", "n", "o", "w", "n">>

\* SpecUnlocated: the issues of reviews with and without a location are
\* extracted and added, one review of one agent after another
NextUnlocated ==
  \E review \in IssueReviews, ai_name \in ThreeAgents :
    /\ Len(extract_issues_from_review(review, ai_name)) = 1
    /\ add_issue(extract_issues_from_review(review, ai_name)[1])

SpecUnlocated == Init /\ [][NextUnlocated]_vars

\* the registered issues that have the placeholder as their location
Unlocated(issues) == { k \in 1..Len(issues) : issues[k].issue.location = Unknown }

\* C39: the issue of a block without a location gets the location "unknown",
\* and when it is added while an issue without a location is registered, it
\* is not registered as a further issue whatever its title: the call only adds
\* its agent to the agreed_by of that earlier issue.
C39_UnlocatedJoinEarlier ==
  [][\A review \in ReviewsWithoutLocation, ai_name \in ThreeAgents :
       add_issue(extract_issues_from_review(review, ai_name)[1])
         => LET before == calculator.issues
                after == calculator'.issues
            IN /\ calculator'.last[1].location = Unknown
               /\ Unlocated(before) # {}
                    => /\ Len(after) = Len(before)
                       /\ \A k \in 1..Len(before) :
                            after[k].issue =
                              IF k \in Unlocated(before)
                                THEN [ before[k].issue EXCEPT
                                         !.agreed_by = @ \cup {ai_name} ]
                                ELSE before[k].issue]_vars

-----------------------------------------------------------------------------
(* The listed tools *)

\* the names that tools/list returns
ListedNames == { str(dict_get(tools_list.items[i], <<"n", "a", "m", "e">>,
    JNull)) :
                   i \in 1..Len(tools_list.items) }

\* SpecTools: a client that asks for the list of tools and calls the tools
\* of the list by the names of the list, without arguments
ToolLines ==
  { json_dumps(Request(id, <<"t", "o", "o", "l", "s", "/", "l", "i", "s",
      "t">>, None)) : id \in IdChoices \ {None} }
    \cup { json_dumps(Request(id, <<"t", "o", "o", "l", "s", "/", "c", "a",
        "l", "l">>,
                              Some(ToolParams(name, JObj(<<>>))))) :
             id \in {Some(JNum(1))}, name \in ListedNames }

NextTools == \E raw \in ToolLines : ReadLine(raw)

SpecTools == Init /\ [][NextTools]_vars

\* the name of the tool that a tools/call line calls, None for another line
CalledTool(raw) ==
  IF /\ IsRequestObject(raw)
     /\ IsStr(dict_get(Decoded(raw).val, <<"m", "e", "t", "h", "o", "d">>,
         JNull), <<"t", "o", "o", "l", "s", "/", "c", "a", "l", "l">>)
    THEN Some(str(dict_get(dict_get(Decoded(raw).val, <<"p", "a", "r", "a",
        "m", "s">>, JObj(<<>>)),
                           <<"n", "a", "m", "e">>, JNull)))
    ELSE None

\* the message of an error reply, the empty text for another response
ErrorMessage(response) ==
  IF IsErrorReply(response)
    THEN dict_get(dict_get(response, <<"e", "r", "r", "o", "r">>, JNull),
        <<"m", "e", "s", "s", "a", "g", "e">>, JNull).s
    ELSE <<>>

\* C40: every name that tools/list returns can be called through tools/call:
\* split at its first "_" it gives a known namespace and the name of a method
\* of the orchestrator, and the call is not answered with "Unknown MCP
\* server", "Unknown tool" or "Invalid tool name format".
C40_ListedToolsDispatch ==
  [][(/\ ReadStep
      /\ CalledTool(lastLine'.line) # None
      /\ CalledTool(lastLine'.line)[1] \in ListedNames)
       => LET name == split_once(CalledTool(lastLine'.line)[1])
          IN /\ name.server_name \in Servers
             /\ name.method_name \in OrchestratorMethods
             /\ PrintedOne
             /\ ~startswith(ErrorMessage(Printed), <<"U", "n", "k", "n", "o",
                 "w", "n", " ", "M", "C", "P", " ", "s", "e", "r", "v", "e",
                 "r">>)
             /\ ~startswith(ErrorMessage(Printed), <<"U", "n", "k", "n", "o",
                 "w", "n", " ", "t", "o", "o", "l">>)
             /\ ErrorMessage(Printed) # <<"I", "n", "v", "a", "l", "i", "d",
                 " ", "t", "o", "o", "l", " ", "n", "a", "m", "e", " ", "f",
                 "o", "r", "m", "a", "t">>]_vars

\* the tool listed as review_review_iterative_consensus has been called: the
\* method review_iterative_consensus was invoked and raised for its missing
\* parameter
C40_Witness ==
  ~(/\ lastLine.outcome = "answered"
    /\ CalledTool(lastLine.line) = Some(<<"r", "e", "v", "i", "e", "w", "_",
        "r", "e", "v", "i", "e", "w", "_", "i", "t", "e", "r", "a", "t", "i",
        "v", "e", "_", "c", "o", "n", "s", "e", "n", "s", "u", "s">>)
    /\ ErrorMessage(json_loads(stdout[Len(stdout)]).val)
         = <<"R", "e", "v", "i", "e", "w", "O", "r", "c", "h", "e", "s", "t",
             "r", "a", "t", "o", "r", ".", "r", "e", "v", "i", "e", "w", "_",
             "i", "t", "e", "r", "a", "t", "i", "v", "e", "_", "c", "o", "n",
             "s", "e", "n", "s", "u", "s", "(", ")", " ", "m", "i", "s", "s",
             "i", "n", "g", " ", "1", " ", "r", "e", "q", "u", "i", "r", "e",
             "d", " ", "p", "o", "s", "i", "t", "i", "o", "n", "a", "l", " ",
             "a", "r", "g", "u", "m", "e", "n", "t", ":", " ", "'", "b", "a",
             "s", "e", "'">>)

====
